---- MODULE Spec2Model ----
(***************************************************************************)
(* Text Region Geometry Pipeline of glyphatlas-pdf: page-type              *)
(* classification, image-to-page coordinate transform, line-to-word        *)
(* splitting, region aggregation, the run of _run_main under the timeout   *)
(* of main, and the three PDF renderers.                                   *)
(*                                                                         *)
(* Numbers that are Python floats in the source are modelled as exact      *)
(* rationals [n, d] in lowest terms (d > 0).  A record with d = 0 stands   *)
(* for a value that is not a finite number: None (n = 0), +inf (n = 1) and *)
(* -inf (n = -1).                                                          *)
(***************************************************************************)
EXTENDS Integers, Sequences, FiniteSets, TLC

VARIABLES
    cl_doc,      \* classifier: the pages of the PDF as the reader reports them
    cl_throw,    \* classifier: index of the page whose inspection throws (0 = none)
    cl_result,   \* classifier: the value returned by detect_pdf_type ("none" before the call)
    sp_region,   \* splitter: the line region handed to split_line_box_into_words
    sp_out,      \* splitter: what the call returned ("pc" = "start" before the call)
    tr_in,       \* transform: an embedded image (size, placement rectangles) and a polygon on it
    tr_out,      \* transform: what _transform_coords_to_pdf returned
    OCR_ENGINE,  \* config.OCR_ENGINE of the run: "onnxtr" or "paddleocr"
    em_images,   \* embedded images: the list extract_images_from_pdf returned
    em_i,        \* embedded images: index of the next image of the loop
    em_results,  \* embedded images: ocr_results_by_page, page number -> regions
    pp_doc,      \* pipeline: the pages of the PDF at PDF_PATH
    pp_pc,       \* pipeline: the step of _run_main that runs next
    pdf_type,    \* pipeline: pdf_type_info['type'] ("none" before detection)
    all_results, \* pipeline: all_results['pages']
    json_file,   \* the file at JSON_OUTPUT: its pages and how often it was written
    ocr_inits,   \* number of init_ocr() calls of the run
    oc_out,      \* what a direct call of run_ocr on the PDF's page images returned
    rd_kind,     \* renderer: "annotated", "searchable" or "editable"
    rd_pages,    \* renderer: results['pages'] as read from the results file
    rd_npages,   \* renderer: number of pages of the original PDF
    rd_p,        \* renderer: position in results['pages'] of the current entry
    rd_r,        \* renderer: position of the next region (0 = page not opened yet)
    rd_out,      \* renderer: the drawing calls made on the document, in order
    rd_status,   \* renderer: "start", "running", "saved" (returned True) or "failed" (False)
    rd_file,     \* renderer: whether this call has saved the output PDF
    mn_pc,       \* main: "join" while it waits for the worker, then the line it ended at
    mn_alive,    \* main: thread.is_alive() of the worker thread that runs _run_main
    result_container, \* main: what run_with_timeout recorded (success, error)
    mn_exit,     \* main: exit status of the process (-1 while it runs)
    aw_pages,    \* word splitting: results_data['pages'] handed to apply_word_splitting
    aw_out       \* word splitting: what each successive call returned, in order

vars == <<cl_doc, cl_throw, cl_result, sp_region, sp_out, tr_in, tr_out,
          OCR_ENGINE, em_images, em_i, em_results,
          pp_doc, pp_pc, pdf_type, all_results, json_file, ocr_inits, oc_out,
          rd_kind, rd_pages, rd_npages, rd_p, rd_r, rd_out, rd_status, rd_file,
         mn_pc, mn_alive, result_container, mn_exit,
         aw_pages, aw_out>>
cl_vars == <<cl_doc, cl_throw, cl_result>>
sp_vars == <<sp_region, sp_out>>
tr_vars == <<tr_in, tr_out>>
em_vars == <<OCR_ENGINE, em_images, em_i, em_results>>
pp_vars == <<pp_doc, pp_pc, pdf_type, all_results, json_file, ocr_inits, oc_out>>
rd_vars == <<rd_kind, rd_pages, rd_npages, rd_p, rd_r, rd_out, rd_status, rd_file>>
mn_vars == <<mn_pc, mn_alive, result_container, mn_exit>>
aw_vars == <<aw_pages, aw_out>>

-----------------------------------------------------------------------------
(* Bounds of the model *)

MaxPages == 3       \* pages of a document handed to the classifier
MaxDocPages == 2    \* pages of the PDF of a run
MaxWords == 12      \* words of a line, in the lines made of equal words and a last one
MaxWordLen == 2     \* characters of a word
MaxShort == 3       \* words of a line, in the lines enumerated with every mix of lengths
MaxPolyLen == 4     \* points of a polygon handed to the image-to-page transform
MaxImages == 2      \* embedded images of a document
MaxRegions == 2     \* regions of the results file a renderer reads

-----------------------------------------------------------------------------
(* Exact rational arithmetic standing for Python float arithmetic *)

Abs(a) == IF a < 0 THEN -a ELSE a

RECURSIVE GCD(_, _)
GCD(a, b) == IF b = 0 THEN a ELSE GCD(b, a % b)

Rat(num, den) ==
    LET s == IF den < 0 THEN -1 ELSE 1
        g == GCD(Abs(num), Abs(den))
    IN  [n |-> (s * num) \div g, d |-> (s * den) \div g]

R(k) == [n |-> k, d |-> 1]

NoneC == [n |-> 0, d |-> 0]
InfC == [n |-> 1, d |-> 0]

IsNum(a) == a.d > 0

RAdd(a, b) == Rat(a.n * b.d + b.n * a.d, a.d * b.d)
RSub(a, b) == Rat(a.n * b.d - b.n * a.d, a.d * b.d)
RMul(a, b) == Rat(a.n * b.n, a.d * b.d)
RDiv(a, b) == Rat(a.n * b.d, a.d * b.n)
RLess(a, b) == a.n * b.d < b.n * a.d
RLeq(a, b) == a.n * b.d <= b.n * a.d

SeqsUpTo(S, k) == UNION {[1..m -> S] : m \in 0..k}

RECURSIVE RMinSeq(_)
RMinSeq(s) ==
    IF Len(s) = 1 THEN s[1]
    ELSE LET m == RMinSeq(Tail(s)) IN IF RLeq(s[1], m) THEN s[1] ELSE m

RECURSIVE RMaxSeq(_)
RMaxSeq(s) ==
    IF Len(s) = 1 THEN s[1]
    ELSE LET m == RMaxSeq(Tail(s)) IN IF RLeq(m, s[1]) THEN s[1] ELSE m

-----------------------------------------------------------------------------
(* The state of each component before it is used *)

NoResult == [type |-> "none", pages |-> <<>>, raised |-> FALSE]
ClIdle == cl_doc = <<>> /\ cl_throw = 0 /\ cl_result = NoResult

SplitStart == [pc |-> "start", raised |-> FALSE, boxes |-> <<>>]
SpIdle ==
    /\ sp_region = [bbox |-> <<>>, text |-> <<>>, confidence |-> R(1), source |-> "unknown"]
    /\ sp_out = SplitStart

TransformStart == [pc |-> "start", raised |-> FALSE, poly |-> <<>>]
TrIdle ==
    /\ tr_in = [poly |-> <<>>, rects |-> <<>>, img_width |-> 0, img_height |-> 0]
    /\ tr_out = TransformStart

NoPages == [p \in {} |-> <<>>]
EmIdle ==
    /\ OCR_ENGINE = "onnxtr"
    /\ em_images = <<>>
    /\ em_i = 1
    /\ em_results = NoPages

NoFile == [exists |-> FALSE, complete |-> FALSE, pages |-> <<>>, writes |-> 0]
OcrStart == [pc |-> "start", raised |-> FALSE, pages |-> <<>>]
PpIdle ==
    /\ pp_doc = <<>>
    /\ pp_pc = "idle"
    /\ pdf_type = "none"
    /\ all_results = <<>>
    /\ json_file = NoFile
    /\ ocr_inits = 0
    /\ oc_out = OcrStart

RdIdle ==
    /\ rd_kind = "none"
    /\ rd_pages = <<>>
    /\ rd_npages = 0
    /\ rd_p = 1
    /\ rd_r = 0
    /\ rd_out = <<>>
    /\ rd_status = "idle"
    /\ rd_file = FALSE

NoOutcome == [success |-> FALSE, error |-> FALSE]
MnIdle ==
    /\ mn_pc = "idle"
    /\ mn_alive = FALSE
    /\ result_container = NoOutcome
    /\ mn_exit = -1

AwIdle ==
    /\ aw_pages = <<>>
    /\ aw_out = <<>>

-----------------------------------------------------------------------------
(* Word splitter: src/src/ocr/word_splitter.py *)

\* WORD_SPACING_THRESHOLD = 0.1
WORD_SPACING_THRESHOLD == Rat(1, 10)

\* A text is a sequence of characters; " " is the only blank used.
Rep(c, k) == [i \in 1..k |-> c]

RECURSIVE JoinWords(_)
JoinWords(ws) ==
    IF ws = <<>> THEN <<>>
    ELSE IF Len(ws) = 1 THEN ws[1]
    ELSE ws[1] \o <<" ">> \o JoinWords(Tail(ws))

\* text.split(): the maximal runs of non-blank characters, in order.
RECURSIVE SplitWs(_, _, _)
SplitWs(t, cur, acc) ==
    IF t = <<>> THEN (IF cur = <<>> THEN acc ELSE Append(acc, cur))
    ELSE IF Head(t) = " "
         THEN SplitWs(Tail(t), <<>>, IF cur = <<>> THEN acc ELSE Append(acc, cur))
         ELSE SplitWs(Tail(t), Append(cur, Head(t)), acc)

TextSplit(text) == SplitWs(text, <<>>, <<>>)

RECURSIVE SumLen(_)
SumLen(ws) == IF ws = <<>> THEN 0 ELSE Len(ws[1]) + SumLen(Tail(ws))

Pt(x, y) == <<x, y>>
Rect4(x0, y0, x1, y1) == <<Pt(x0, y0), Pt(x1, y0), Pt(x1, y1), Pt(x0, y1)>>

XCoords(bbox) == [i \in 1..Len(bbox) |-> bbox[i][1]]
YCoords(bbox) == [i \in 1..Len(bbox) |-> bbox[i][2]]

\* p[0], p[1], min(), max() and the subtraction raise on a point with fewer
\* than two coordinates or on a coordinate that is None.
GeometryRaises(bbox) ==
    \E i \in 1..Len(bbox) :
        \/ Len(bbox[i]) < 2
        \/ ~IsNum(bbox[i][1])
        \/ ~IsNum(bbox[i][2])

\* The loop of split_line_box_into_words from word i on.
RECURSIVE WordBoxesFreeEnd(_, _, _, _, _, _, _, _, _)
WordBoxesFreeEnd(words, i, current_x, char_width, x1, y0, y1, confidence, source) ==
    IF i > Len(words) THEN <<>>
    ELSE LET word_width == RMul(char_width, R(Len(words[i])))
             word_x0 == current_x
             word_x1 == RAdd(current_x, word_width)
             space_width == RMul(char_width, WORD_SPACING_THRESHOLD)
         IN  <<[bbox |-> Rect4(word_x0, y0, word_x1, y1), text |-> words[i],
                confidence |-> confidence, source |-> source, is_word |-> "true"]>>
             \o WordBoxesFreeEnd(words, i + 1, RAdd(word_x1, space_width), char_width,
                                 x1, y0, y1, confidence, source)

RECURSIVE WordBoxes(_, _, _, _, _, _, _, _, _)
WordBoxes(words, i, current_x, char_width, x1, y0, y1, confidence, source) ==
    IF i > Len(words) THEN <<>>
    ELSE LET word_width == RMul(char_width, R(Len(words[i])))
             word_x0 == current_x
             word_x1 == IF i = Len(words) THEN x1 ELSE RAdd(current_x, word_width)
             space_width == RMul(char_width, WORD_SPACING_THRESHOLD)
         IN  <<[bbox |-> Rect4(word_x0, y0, word_x1, y1), text |-> words[i],
                confidence |-> confidence, source |-> source, is_word |-> "true"]>>
             \o WordBoxes(words, i + 1, RAdd(word_x1, space_width), char_width,
                          x1, y0, y1, confidence, source)

\* The early returns of split_line_box_into_words: nothing for an empty text
\* or a missing bbox, the region itself for at most one word.
UnsplitMarked(bbox, text, confidence, source) ==
    <<[bbox |-> bbox, text |-> text, confidence |-> confidence,
       source |-> source, is_word |-> "true"]>>
Unsplit(bbox, text, confidence, source) ==
    <<[bbox |-> bbox, text |-> text, confidence |-> confidence,
       source |-> source, is_word |-> "unset"]>>

\* split_line_box_into_words(bbox, text, confidence, source): `raised` tells
\* that the call ended with an exception instead of a list.
split_line_box_into_wordsCornerY(bbox, text, confidence, source) ==
    IF text = <<>> \/ bbox = <<>> THEN [raised |-> FALSE, boxes |-> <<>>]
    ELSE LET words == TextSplit(text) IN
         IF Len(words) <= 1
         THEN [raised |-> FALSE, boxes |-> Unsplit(bbox, text, confidence, source)]
         ELSE IF GeometryRaises(bbox) THEN [raised |-> TRUE, boxes |-> <<>>]
         ELSE LET x0 == RMinSeq(XCoords(bbox))
                  x1 == RMaxSeq(XCoords(bbox))
                  y0 == YCoords(bbox)[2]
                  y1 == YCoords(bbox)[3]
                  total_width == RSub(x1, x0)
                  total_chars == SumLen(words)
                  char_width == IF total_chars > 0
                                THEN RDiv(total_width, R(total_chars)) ELSE R(0)
              IN  [raised |-> FALSE,
                   boxes |-> WordBoxes(words, 1, x0, char_width, x1, y0, y1,
                                       confidence, source)]
split_line_box_into_words(bbox, text, confidence, source) ==
    IF text = <<>> \/ bbox = <<>> THEN [raised |-> FALSE, boxes |-> <<>>]
    ELSE LET words == TextSplit(text) IN
         IF Len(words) <= 1
         THEN [raised |-> FALSE, boxes |-> Unsplit(bbox, text, confidence, source)]
         ELSE IF GeometryRaises(bbox) THEN [raised |-> TRUE, boxes |-> <<>>]
         ELSE LET x0 == RMinSeq(XCoords(bbox))
                  x1 == RMaxSeq(XCoords(bbox))
                  y0 == RMinSeq(YCoords(bbox))
                  y1 == RMaxSeq(YCoords(bbox))
                  total_width == RSub(x1, x0)
                  total_chars == SumLen(words)
                  char_width == IF total_chars > 0
                                THEN RDiv(total_width, R(total_chars)) ELSE R(0)
              IN  [raised |-> FALSE,
                   boxes |-> WordBoxes(words, 1, x0, char_width, x1, y0, y1,
                                       confidence, source)]

\* Lines of k equal words followed by a last word, and every short line.
LensOf(k, a, b) == [i \in 1..k |-> IF i < k THEN a ELSE b]
LineLens ==
    {LensOf(k, a, b) : k \in 1..MaxWords, a \in 1..MaxWordLen, b \in 1..MaxWordLen}
      \cup SeqsUpTo(1..MaxWordLen, MaxShort)
TextOfLens(lens) == JoinWords([i \in 1..Len(lens) |-> Rep("a", lens[i])])

\* Texts with irregular blanks and with distinct words.
OddTexts ==
    { <<>>, <<" ">>, <<" ", "a">>, <<"a", " ">>, <<"a", " ", " ", "b">>,
      <<" ", "a", "b", " ", "b", " ">>, <<"b", "a", " ", "a", " ", "b">> }

SplitTexts == {TextOfLens(l) : l \in LineLens} \cup OddTexts

SplitBoxes ==
    { Rect4(R(0), R(0), R(24), R(6)),
      Rect4(R(5), R(2), R(12), R(9)),
      <<Pt(R(1), R(0)), Pt(R(10), R(1)), Pt(R(9), R(6)), Pt(R(0), R(5))>>,
      Rect4(R(3), R(1), R(3), R(4)),
      <<Pt(R(0), R(0)), Pt(R(8), R(0)), Pt(R(8), R(4))>>,
      <<Pt(R(0), R(0)), Pt(R(8), NoneC), Pt(R(8), R(4)), Pt(R(0), R(4))>>,
      <<Pt(R(0), R(0)), <<R(8)>>, Pt(R(8), R(4)), Pt(R(0), R(4))>>,
      <<>> }

SpInit ==
    /\ sp_region \in [bbox : SplitBoxes, text : SplitTexts,
                      confidence : {Rat(9, 10)}, source : {"ocr_from_image"}]
    /\ sp_out = SplitStart
    /\ ClIdle
    /\ TrIdle
    /\ EmIdle
    /\ PpIdle
    /\ RdIdle
    /\ MnIdle
    /\ AwIdle

SplitLine ==
    /\ sp_out.pc = "start"
    /\ LET r == split_line_box_into_words(sp_region.bbox, sp_region.text,
                                          sp_region.confidence, sp_region.source)
       IN  sp_out' = [pc |-> "done", raised |-> r.raised, boxes |-> r.boxes]
    /\ UNCHANGED <<sp_region, cl_vars, tr_vars, em_vars, pp_vars, rd_vars, mn_vars, aw_vars>>

SpecSplit == SpInit /\ [][SplitLine]_vars

-----------------------------------------------------------------------------
(* Image-to-page transform: src/main_refactored.py, src/src/pdf/image_extractor.py *)

\* The placement of an embedded image as extract_images_from_pdf records it:
\* the four corners of the first rectangle page.get_image_rects returns, or
\* None (the empty sequence) when it returns none.
ImageBBoxZOrder(image_rects) ==
    IF image_rects # <<>>
    THEN LET rect == image_rects[1]
         IN  <<Pt(rect.x0, rect.y0), Pt(rect.x1, rect.y0),
               Pt(rect.x0, rect.y1), Pt(rect.x1, rect.y1)>>
    ELSE <<>>
ImageBBox(image_rects) ==
    IF image_rects # <<>>
    THEN LET rect == image_rects[1]
         IN  Rect4(rect.x0, rect.y0, rect.x1, rect.y1)
    ELSE <<>>

\* `x_img, y_img = point` and the products raise on a point that has not
\* exactly two coordinates or has a coordinate that is None.
PointRaises(point) ==
    \/ Len(point) # 2
    \/ \E j \in 1..Len(point) : ~IsNum(point[j])

\* _transform_coords_to_pdf(poly, img_bbox_in_pdf, img_width, img_height):
\* `raised` tells that the call ended with an exception (the division by a
\* zero image size, or a malformed point).
_transform_coords_to_pdf(poly, img_bbox_in_pdf, img_width, img_height) ==
    LET pdf_x0 == img_bbox_in_pdf[1][1]
        pdf_y0 == img_bbox_in_pdf[1][2]
        pdf_x1 == img_bbox_in_pdf[3][1]
        pdf_y1 == img_bbox_in_pdf[3][2]
        pdf_width == RSub(pdf_x1, pdf_x0)
        pdf_height == RSub(pdf_y1, pdf_y0)
    IN  IF img_width = 0 \/ img_height = 0 THEN [raised |-> TRUE, poly |-> <<>>]
        ELSE IF \E i \in 1..Len(poly) : PointRaises(poly[i])
             THEN [raised |-> TRUE, poly |-> <<>>]
        ELSE LET scale_x == RDiv(pdf_width, R(img_width))
                 scale_y == RDiv(pdf_height, R(img_height))
             IN  [raised |-> FALSE,
                  poly |-> [i \in 1..Len(poly) |->
                              Pt(RAdd(RMul(poly[i][1], scale_x), pdf_x0),
                                 RAdd(RMul(poly[i][2], scale_y), pdf_y0))]]

\* Points of an image of w x h pixels: its four corners in the order
\* (0,0), (w,0), (w,h), (0,h), an inner point, and two malformed points.
ImgPoint(k, w, h) ==
    CASE k = 1 -> Pt(R(0), R(0))
      [] k = 2 -> Pt(R(w), R(0))
      [] k = 3 -> Pt(R(w), R(h))
      [] k = 4 -> Pt(R(0), R(h))
      [] k = 5 -> Pt(R(1), R(1))
      [] k = 6 -> <<R(1)>>
      [] OTHER -> Pt(NoneC, R(1))
ImgPointKinds == 1..7

PlacedRect(x0, y0, x1, y1) == [x0 |-> x0, y0 |-> y0, x1 |-> x1, y1 |-> y1]
PlacementLists ==
    { <<PlacedRect(R(10), R(20), R(16), R(24))>>,
      <<PlacedRect(R(0), R(0), R(7), R(5)), PlacedRect(R(10), R(20), R(16), R(24))>>,
      <<PlacedRect(R(5), R(5), R(5), R(9))>> }
ImageSizes == { <<3, 2>>, <<4, 3>>, <<0, 2>>, <<3, 0>> }

TrInit ==
    /\ \E size \in ImageSizes, kinds \in SeqsUpTo(ImgPointKinds, MaxPolyLen),
          rects \in PlacementLists :
          tr_in = [poly |-> [i \in 1..Len(kinds) |-> ImgPoint(kinds[i], size[1], size[2])],
                   rects |-> rects, img_width |-> size[1], img_height |-> size[2]]
    /\ tr_out = TransformStart
    /\ ClIdle
    /\ SpIdle
    /\ EmIdle
    /\ PpIdle
    /\ RdIdle
    /\ MnIdle
    /\ AwIdle

TransformCoords ==
    /\ tr_out.pc = "start"
    /\ LET r == _transform_coords_to_pdf(tr_in.poly, ImageBBox(tr_in.rects),
                                         tr_in.img_width, tr_in.img_height)
       IN  tr_out' = [pc |-> "done", raised |-> r.raised, poly |-> r.poly]
    /\ UNCHANGED <<tr_in, cl_vars, sp_vars, em_vars, pp_vars, rd_vars, mn_vars, aw_vars>>

SpecTransform == TrInit /\ [][TransformCoords]_vars

-----------------------------------------------------------------------------
(* OCR detections and the confidence filter: src/src/ocr/engine.py,           *)
(* src/main_refactored.py                                                     *)

\* MIN_CONFIDENCE = 0.5
MIN_CONFIDENCE == Rat(1, 2)

\* `confidence >= MIN_CONFIDENCE`, the test every OCR path applies.
PassesConfidenceStrict(confidence) == RLess(MIN_CONFIDENCE, confidence)
PassesConfidence(confidence) == RLeq(MIN_CONFIDENCE, confidence)

\* What the OCR engine reports: lines of words.  A geometry is normalised to
\* [0,1] x [0,1]; `score` is the line score PaddleOCR gives (rec_scores).
Geom(xmin, ymin, xmax, ymax) == [xmin |-> xmin, ymin |-> ymin, xmax |-> xmax, ymax |-> ymax]
OcrWord(value, confidence, geometry) ==
    [value |-> value, confidence |-> confidence, geometry |-> geometry]

LineHi == [words |-> <<OcrWord(<<"a", "b">>, Rat(9, 10), Geom(Rat(1, 4), Rat(1, 2), Rat(1, 2), R(1))),
                       OcrWord(<<"a">>, Rat(7, 10), Geom(Rat(1, 2), Rat(1, 2), Rat(3, 4), R(1)))>>,
           geometry |-> Geom(Rat(1, 4), Rat(1, 2), Rat(3, 4), R(1)), score |-> Rat(9, 10)]
LineEq == [words |-> <<OcrWord(<<"b">>, MIN_CONFIDENCE, Geom(R(0), R(0), Rat(1, 2), Rat(1, 2)))>>,
           geometry |-> Geom(R(0), R(0), Rat(1, 2), Rat(1, 2)), score |-> MIN_CONFIDENCE]
LineLo == [words |-> <<OcrWord(<<"a">>, Rat(49, 100), Geom(R(0), Rat(1, 2), Rat(1, 4), R(1)))>>,
           geometry |-> Geom(R(0), Rat(1, 2), Rat(1, 4), R(1)), score |-> Rat(49, 100)]
LineMix == [words |-> <<OcrWord(<<"a">>, Rat(9, 10), Geom(R(0), R(0), Rat(1, 4), Rat(1, 4))),
                        OcrWord(<<"b">>, R(0), Geom(Rat(1, 4), R(0), Rat(1, 2), Rat(1, 4)))>>,
            geometry |-> Geom(R(0), R(0), Rat(1, 2), Rat(1, 4)), score |-> Rat(3, 10)]
\* A line whose only word was recognised as the empty string.
LineEmpty == [words |-> <<OcrWord(<<>>, Rat(9, 10), Geom(R(0), R(0), Rat(1, 2), Rat(1, 2)))>>,
              geometry |-> Geom(R(0), R(0), Rat(1, 2), Rat(1, 2)), score |-> Rat(9, 10)]

WordValues(words) == [i \in 1..Len(words) |-> words[i].value]

RECURSIVE SumConfidence(_)
SumConfidence(words) ==
    IF words = <<>> THEN R(0) ELSE RAdd(words[1].confidence, SumConfidence(Tail(words)))

\* The polygon of a normalised geometry in the pixels of a w x h image.
PixelPoly(g, w, h) ==
    Rect4(RMul(g.xmin, R(w)), RMul(g.ymin, R(h)), RMul(g.xmax, R(w)), RMul(g.ymax, R(h)))

\* A detection of an embedded image as each engine branch of
\* _process_embedded_images reads it: OnnxTR joins the words of the line and
\* averages their confidences, PaddleOCR gives rec_texts, rec_scores, rec_polys.
OnnxtrLineDetection(line, w, h) ==
    [text |-> JoinWords(WordValues(line.words)),
     confidence |-> IF line.words # <<>>
                    THEN RDiv(SumConfidence(line.words), R(Len(line.words))) ELSE R(0),
     poly |-> PixelPoly(line.geometry, w, h)]
PaddleDetection(line, w, h) ==
    [text |-> JoinWords(WordValues(line.words)), confidence |-> line.score,
     poly |-> PixelPoly(line.geometry, w, h)]

ImageDetections(img, engine) ==
    [i \in 1..Len(img.lines) |->
        IF engine = "onnxtr"
        THEN OnnxtrLineDetection(img.lines[i], img.img_width, img.img_height)
        ELSE PaddleDetection(img.lines[i], img.img_width, img.img_height)]

ImageRegion(poly, det) ==
    [bbox |-> poly, text |-> det.text, confidence |-> det.confidence,
     source |-> "ocr_from_image", is_word |-> "unset"]

\* The detection loop of one image from detection k on: a detection that
\* passes the filter is transformed when the image has a placement and
\* appended; an exception raised by the transform ends the loop and keeps
\* what was appended before.
RECURSIVE AppendDetections(_, _, _, _, _, _)
AppendDetections(regions, dets, k, img_bbox_in_pdf, w, h) ==
    IF k > Len(dets) THEN regions
    ELSE IF ~PassesConfidence(dets[k].confidence)
         THEN AppendDetections(regions, dets, k + 1, img_bbox_in_pdf, w, h)
    ELSE IF img_bbox_in_pdf # <<>>
         THEN LET t == _transform_coords_to_pdf(dets[k].poly, img_bbox_in_pdf, w, h)
              IN  IF t.raised THEN regions
                  ELSE AppendDetections(Append(regions, ImageRegion(t.poly, dets[k])),
                                        dets, k + 1, img_bbox_in_pdf, w, h)
    ELSE AppendDetections(Append(regions, ImageRegion(dets[k].poly, dets[k])),
                          dets, k + 1, img_bbox_in_pdf, w, h)

PageRegions(results, page_num) ==
    IF page_num \in DOMAIN results THEN results[page_num] ELSE <<>>

SetPage(results, page_num, regions) ==
    [p \in DOMAIN results \cup {page_num} |-> IF p = page_num THEN regions ELSE results[p]]

\* The body of the loop of _process_embedded_images for one image: an image
\* that cannot be opened (or whose OCR call fails) raises before the page's
\* list is created, and the except clause goes on with the next image.
ProcessEmbeddedImage(results, img_info, engine) ==
    IF img_info.unreadable THEN results
    ELSE SetPage(results, img_info.page_num,
                 AppendDetections(PageRegions(results, img_info.page_num),
                                  ImageDetections(img_info, engine), 1,
                                  img_info.bbox, img_info.img_width, img_info.img_height))

\* _process_embedded_images(embedded_images, ocr) from image k on.
RECURSIVE ProcessEmbeddedFrom(_, _, _, _)
ProcessEmbeddedFrom(results, embedded_images, k, engine) ==
    IF k > Len(embedded_images) THEN results
    ELSE ProcessEmbeddedFrom(ProcessEmbeddedImage(results, embedded_images[k], engine),
                             embedded_images, k + 1, engine)

_process_embedded_images(embedded_images, engine) ==
    ProcessEmbeddedFrom(NoPages, embedded_images, 1, engine)

\* An embedded image of the PDF and the entry extract_images_from_pdf makes
\* for it.  doc.extract_image(xref) raises for an image that is not
\* extractable, and the image is skipped.
EmbeddedImage(rects, w, h, unreadable, lines) ==
    [rects |-> rects, img_width |-> w, img_height |-> h, unreadable |-> unreadable,
     lines |-> lines, extractable |-> TRUE]
Unextractable(image) == [image EXCEPT !.extractable = FALSE]
ImageInfo(image, page_num) ==
    [page_num |-> page_num, bbox |-> ImageBBox(image.rects),
     img_width |-> image.img_width, img_height |-> image.img_height,
     unreadable |-> image.unreadable, lines |-> image.lines]

OnePlacement == <<PlacedRect(R(10), R(20), R(16), R(24))>>
EmbeddedImages ==
    { EmbeddedImage(OnePlacement, 4, 2, FALSE, <<LineHi, LineLo, LineEq>>),
      EmbeddedImage(<<>>, 4, 2, FALSE, <<LineHi>>),
      EmbeddedImage(OnePlacement, 0, 2, FALSE, <<LineHi>>),
      EmbeddedImage(OnePlacement, 4, 0, FALSE, <<LineEq, LineHi>>),
      EmbeddedImage(OnePlacement, 4, 2, FALSE, <<LineMix>>),
      EmbeddedImage(OnePlacement, 4, 2, TRUE, <<LineHi>>),
      EmbeddedImage(OnePlacement, 4, 2, FALSE, <<>>) }

OcrEngines == {"onnxtr", "paddleocr"}

EmInit ==
    /\ OCR_ENGINE \in OcrEngines
    /\ \E imgs \in SeqsUpTo(EmbeddedImages, MaxImages), pages \in SeqsUpTo(1..2, MaxImages) :
          /\ Len(pages) = Len(imgs)
          /\ \A i \in 1..Len(pages) - 1 : pages[i] <= pages[i + 1]
          /\ em_images = [i \in 1..Len(imgs) |-> ImageInfo(imgs[i], pages[i])]
    /\ em_i = 1
    /\ em_results = NoPages
    /\ ClIdle
    /\ SpIdle
    /\ TrIdle
    /\ PpIdle
    /\ RdIdle
    /\ MnIdle
    /\ AwIdle

\* One iteration of `for img_info in embedded_images`.
ProcessImage ==
    /\ em_i <= Len(em_images)
    /\ em_results' = ProcessEmbeddedImage(em_results, em_images[em_i], OCR_ENGINE)
    /\ em_i' = em_i + 1
    /\ UNCHANGED <<OCR_ENGINE, em_images, cl_vars, sp_vars, tr_vars, pp_vars, rd_vars, mn_vars, aw_vars>>

SpecEmbedded == EmInit /\ [][ProcessImage]_vars

-----------------------------------------------------------------------------
(* Native text extraction: src/src/pdf/text_extractor.py *)

\* text.strip(): the text without its leading and trailing blanks.
IsBlank(c) == c = " " \/ c = "\n"

RECURSIVE LStrip(_)
LStrip(t) == IF t # <<>> /\ IsBlank(Head(t)) THEN LStrip(Tail(t)) ELSE t

RECURSIVE RStrip(_)
RStrip(t) ==
    IF t # <<>> /\ IsBlank(t[Len(t)]) THEN RStrip(SubSeq(t, 1, Len(t) - 1)) ELSE t

Strip(t) == RStrip(LStrip(t))

\* The concatenation of every text followed by the separator.
RECURSIVE ConcatWith(_, _)
ConcatWith(texts, sep) ==
    IF texts = <<>> THEN <<>> ELSE texts[1] \o <<sep>> \o ConcatWith(Tail(texts), sep)

RegionTexts(regions) == [i \in 1..Len(regions) |-> regions[i].text]

\* A word of page.get_text("words"): (x0, y0, x1, y1, "word", ...).
NativeWord(x0, y0, x1, y1, text) == [x0 |-> x0, y0 |-> y0, x1 |-> x1, y1 |-> y1, text |-> text]

NativeRegion(w) ==
    [bbox |-> Rect4(w.x0, w.y0, w.x1, w.y1), text |-> w.text, confidence |-> R(1),
     source |-> "native", is_word |-> "true"]

\* One entry of a results document.  A key the code does not set is "unset"
\* (-1 for original_line_count); the entry made for a failed page has only
\* page_num and error.
PageEntry(page_num, text_regions, full_text, processing_method) ==
    [page_num |-> page_num, text_regions |-> text_regions, full_text |-> full_text,
     processing_method |-> processing_method, original_line_count |-> -1,
     error |-> FALSE]
ErrorEntry(page_num) ==
    [page_num |-> page_num, text_regions |-> <<>>, full_text |-> <<>>,
     processing_method |-> "unset", original_line_count |-> -1, error |-> TRUE]

NativePage(page, page_num) ==
    LET text_regions == [i \in 1..Len(page.words) |-> NativeRegion(page.words[i])]
    IN  PageEntry(page_num, text_regions,
                  Strip(ConcatWith(RegionTexts(text_regions), " ")), "unset")

\* extract_native_text_with_boxes(pdf_path) with SPLIT_BY_WORDS on: one entry
\* per page; an exception on any page makes the call return no page at all.
extract_native_text_with_boxes(doc) ==
    IF \E i \in 1..Len(doc) : doc[i].extract_raises THEN <<>>
    ELSE [i \in 1..Len(doc) |-> NativePage(doc[i], i)]

\* extract_images_from_pdf(pdf_path): the images of every page that could be
\* extracted, in page order.
RECURSIVE ExtractImagesFrom(_, _)
ExtractImagesFrom(doc, k) ==
    IF k > Len(doc) THEN <<>>
    ELSE LET extracted == SelectSeq(doc[k].images, LAMBDA image : image.extractable)
         IN  [i \in 1..Len(extracted) |-> ImageInfo(extracted[i], k)]
             \o ExtractImagesFrom(doc, k + 1)

extract_images_from_pdf(doc) == ExtractImagesFrom(doc, 1)

-----------------------------------------------------------------------------
(* Full-page OCR: src/src/ocr/engine.py, src/src/pdf/converter.py *)

MAX_SIDE == 1000
MIN_IMAGE_SIZE == 1000
UPSCALE_FACTOR == 2
RENDER_DPI == 300

RMin(a, b) == IF RLeq(a, b) THEN a ELSE b
RMax(a, b) == IF RLeq(a, b) THEN b ELSE a
IMax(a, b) == IF a >= b THEN a ELSE b

\* int(x) of a non-negative float.
Floor(a) == a.n \div a.d

\* pdf_to_scaled_images: the entry of one page, rendered at 1:1 to
\* pdf_w x pdf_h pixels, upscaled when small and then reduced to MAX_SIDE.
ScaledImage(page, page_num) ==
    LET max_dim == IMax(page.pdf_w, page.pdf_h)
        up == max_dim < MIN_IMAGE_SIZE
        w == IF up THEN page.pdf_w * UPSCALE_FACTOR ELSE page.pdf_w
        h == IF up THEN page.pdf_h * UPSCALE_FACTOR ELSE page.pdf_h
        scale == RMin(R(1), Rat(MAX_SIDE, IMax(w, h)))
    IN  [page_num |-> page_num, scale |-> scale,
         upscale_factor |-> IF up THEN R(UPSCALE_FACTOR) ELSE R(1),
         new_w |-> Floor(RMul(R(w), scale)), new_h |-> Floor(RMul(R(h), scale)),
         lines |-> page.lines, ocr_raises |-> page.ocr_raises]

pdf_to_scaled_images(doc) == [i \in 1..Len(doc) |-> ScaledImage(doc[i], i)]

RECURSIVE Flatten(_)
Flatten(ss) == IF ss = <<>> THEN <<>> ELSE ss[1] \o Flatten(Tail(ss))

\* The words of a page result, block by block and line by line.
PageWords(lines) == Flatten([i \in 1..Len(lines) |-> lines[i].words])

RECURSIVE KeepPassing(_)
KeepPassing(regions) ==
    IF regions = <<>> THEN <<>>
    ELSE IF PassesConfidence(regions[1].confidence)
         THEN <<regions[1]>> \o KeepPassing(Tail(regions))
         ELSE KeepPassing(Tail(regions))

OcrRegion(bbox, text, confidence) ==
    [bbox |-> bbox, text |-> text, confidence |-> confidence, source |-> "unset",
     is_word |-> "unset"]

DividePoly(poly, f) == [i \in 1..Len(poly) |-> Pt(RDiv(poly[i][1], f), RDiv(poly[i][2], f))]

\* _run_ocr_onnxtr: the region of one word of a page image of w x h pixels.
OnnxtrWordRegion(word, w, h, scale, upscale_factor) ==
    LET g == word.geometry
        x0 == RDiv(RDiv(RMul(g.xmin, R(w)), upscale_factor), scale)
        y0 == RDiv(RDiv(RMul(g.ymin, R(h)), upscale_factor), scale)
        x1 == RDiv(RDiv(RMul(g.xmax, R(w)), upscale_factor), scale)
        y1 == RDiv(RDiv(RMul(g.ymax, R(h)), upscale_factor), scale)
    IN  OcrRegion(Rect4(x0, y0, x1, y1), word.value, word.confidence)

OnnxtrPage(img) ==
    LET words == PageWords(img.lines)
        text_regions ==
            KeepPassing([i \in 1..Len(words) |->
                OnnxtrWordRegion(words[i], img.new_w, img.new_h, img.scale,
                                 img.upscale_factor)])
    IN  PageEntry(img.page_num, text_regions, JoinWords(RegionTexts(text_regions)), "unset")

\* _run_ocr_onnxtr(images, predictor): the batch call has no try around it,
\* so a failure of the predictor ends the call with an exception.
_run_ocr_onnxtr(images) ==
    IF \E i \in 1..Len(images) : images[i].ocr_raises
    THEN [raised |-> TRUE, pages |-> <<>>]
    ELSE [raised |-> FALSE, pages |-> [i \in 1..Len(images) |-> OnnxtrPage(images[i])]]

\* _run_ocr_paddle: the region of one detection of a page image; only the
\* upscale factor divides the polygon.
PaddleRegion(line, img) ==
    LET poly == PixelPoly(line.geometry, img.new_w, img.new_h)
        bbox == IF img.upscale_factor # R(1) THEN DividePoly(poly, img.upscale_factor)
                ELSE poly
    IN  OcrRegion(bbox, JoinWords(WordValues(line.words)), line.score)

\* The page entry of _run_ocr_paddle; reading the saved page JSON again when
\* nothing was kept applies the same filter to the same detections.
PaddlePage(img) ==
    IF img.ocr_raises THEN ErrorEntry(img.page_num)
    ELSE LET detected == [i \in 1..Len(img.lines) |-> PaddleRegion(img.lines[i], img)]
             first == KeepPassing(detected)
             text_regions == IF first = <<>> THEN KeepPassing(detected) ELSE first
         IN  PageEntry(img.page_num, text_regions,
                       ConcatWith(RegionTexts(text_regions), "\n"), "unset")

_run_ocr_paddle(images) ==
    [raised |-> FALSE, pages |-> [i \in 1..Len(images) |-> PaddlePage(images[i])]]

\* run_ocr(images, ocr): both engines end by writing the results file.
run_ocr(images, engine) ==
    IF engine = "onnxtr" THEN _run_ocr_onnxtr(images) ELSE _run_ocr_paddle(images)

\* render_scale of _process_scanned_pdf, from the first page of the PDF.
RenderScale(doc) ==
    LET pdf_max == IMax(doc[1].pdf_w, doc[1].pdf_h)
        dpi_scale == Rat(RENDER_DPI, 72)
        optimal_scale == RDiv(RMul(R(MAX_SIDE), Rat(3, 2)), R(pdf_max))
    IN  RMax(Rat(6, 5), RMin(R(2), RMin(dpi_scale, optimal_scale)))

\* run_ocr_direct_pdf: the region of one word of a page rendered at `scale`.
DirectWordRegion(word, page, scale) ==
    LET img_w == Floor(RMul(R(page.pdf_w), scale))
        img_h == Floor(RMul(R(page.pdf_h), scale))
        scale_x == Rat(img_w, page.pdf_w)
        scale_y == Rat(img_h, page.pdf_h)
        g == word.geometry
    IN  OcrRegion(Rect4(RDiv(RMul(g.xmin, R(img_w)), scale_x),
                        RDiv(RMul(g.ymin, R(img_h)), scale_y),
                        RDiv(RMul(g.xmax, R(img_w)), scale_x),
                        RDiv(RMul(g.ymax, R(img_h)), scale_y)),
                  word.value, word.confidence)

DirectPage(page, page_num, scale) ==
    LET words == PageWords(page.lines)
        text_regions ==
            KeepPassing([i \in 1..Len(words) |-> DirectWordRegion(words[i], page, scale)])
    IN  PageEntry(page_num, text_regions, JoinWords(RegionTexts(text_regions)),
                  "onnxtr_direct_pdf")

\* run_ocr_direct_pdf(pdf_path, ocr, scale): one batch call for the document.
run_ocr_direct_pdf(doc, scale) ==
    IF \E i \in 1..Len(doc) : doc[i].ocr_raises
    THEN [raised |-> TRUE, pages |-> <<>>]
    ELSE [raised |-> FALSE, pages |-> [i \in 1..Len(doc) |-> DirectPage(doc[i], i, scale)]]

-----------------------------------------------------------------------------
(* Document classifier: src/src/pdf/analyzer.py *)

\* Number of characters a page's text must exceed to count as extractable text.
TEXT_THRESHOLD == 50

\* A page as the PDF reader reports it: the raw text is `ws` leading whitespace
\* characters followed by `core` characters that start and end with a
\* non-blank one; `images` is the number of raster images on the page.
PageKinds ==
    [ws : {0, 1}, core : {0, TEXT_THRESHOLD, TEXT_THRESHOLD + 1}, images : {0, 2}]

\* len(page.get_text("text").strip())
StrippedLen(p) == p.core

\* One entry of pages_info.
PageInfoFlipped(p, i) ==
    [page_num |-> i, has_text |-> StrippedLen(p) >= TEXT_THRESHOLD,
     has_images |-> p.images > 0, image_count |-> p.images]
PageInfo(p, i) ==
    [page_num |-> i, has_text |-> StrippedLen(p) > TEXT_THRESHOLD,
     has_images |-> p.images > 0, image_count |-> p.images]

PagesInfo(doc) == [i \in 1..Len(doc) |-> PageInfo(doc[i], i)]

PagesWithText(pages_info) ==
    Cardinality({i \in DOMAIN pages_info : pages_info[i].has_text})
PagesWithImages(pages_info) ==
    Cardinality({i \in DOMAIN pages_info : pages_info[i].has_images})

\* The type decision on a complete pages_info list.
Classify(pages_info) ==
    LET pages_with_text == PagesWithText(pages_info)
        pages_with_images == PagesWithImages(pages_info)
        total_pages == Len(pages_info)
    IN  IF pages_with_text = total_pages /\ pages_with_images = 0 THEN "text_only"
        ELSE IF pages_with_text > 0 /\ pages_with_images > 0 THEN "text_and_images"
        ELSE IF pages_with_images > 0 THEN "scanned"
        ELSE "scanned"

\* detect_pdf_type: the whole body runs inside one try; an exception raised
\* while a page is inspected discards what was collected.
detect_pdf_type(doc, throw) ==
    IF throw \in 1..Len(doc)
    THEN [type |-> "scanned", pages |-> <<>>, raised |-> TRUE]
    ELSE [type |-> Classify(PagesInfo(doc)), pages |-> PagesInfo(doc), raised |-> FALSE]

ClInit ==
    /\ cl_doc \in SeqsUpTo(PageKinds, MaxPages)
    /\ cl_throw \in 0..Len(cl_doc)
    /\ cl_result = NoResult
    /\ SpIdle
    /\ TrIdle
    /\ EmIdle
    /\ PpIdle
    /\ RdIdle
    /\ MnIdle
    /\ AwIdle

DetectPdfType ==
    /\ cl_result.type = "none"
    /\ cl_result' = detect_pdf_type(cl_doc, cl_throw)
    /\ UNCHANGED <<cl_doc, cl_throw, sp_vars, tr_vars, em_vars, pp_vars, rd_vars, mn_vars, aw_vars>>

SpecClassify == ClInit /\ [][DetectPdfType]_vars

-----------------------------------------------------------------------------
(* The run: src/main_refactored.py (_run_main), src/src/ocr/word_splitter.py  *)
(* (apply_word_splitting), src/src/utils/io.py (save_results)                 *)

\* apply_word_splitting on the regions of one page: a region that is already
\* a word is kept, any other is replaced by what the splitter returns.
RECURSIVE SplitRegionsAll(_)
SplitRegionsAll(regions) ==
    IF regions = <<>> THEN [raised |-> FALSE, boxes |-> <<>>]
    ELSE LET region == regions[1]
             word_boxes ==
                 split_line_box_into_words(
                     region.bbox, region.text, region.confidence,
                     IF region.source = "unset" THEN "unknown" ELSE region.source)
             rest == SplitRegionsAll(Tail(regions))
         IN  IF word_boxes.raised \/ rest.raised THEN [raised |-> TRUE, boxes |-> <<>>]
             ELSE [raised |-> FALSE, boxes |-> word_boxes.boxes \o rest.boxes]

RECURSIVE SplitRegions(_)
SplitRegions(regions) ==
    IF regions = <<>> THEN [raised |-> FALSE, boxes |-> <<>>]
    ELSE LET region == regions[1]
             word_boxes ==
                 IF region.is_word = "true"
                 THEN [raised |-> FALSE, boxes |-> <<region>>]
                 ELSE split_line_box_into_words(
                          region.bbox, region.text, region.confidence,
                          IF region.source = "unset" THEN "unknown" ELSE region.source)
             rest == SplitRegions(Tail(regions))
         IN  IF word_boxes.raised \/ rest.raised THEN [raised |-> TRUE, boxes |-> <<>>]
             ELSE [raised |-> FALSE, boxes |-> word_boxes.boxes \o rest.boxes]

SplitPageAppends(page_data) ==
    [page_data EXCEPT !.text_regions = page_data.text_regions
                                          \o SplitRegions(page_data.text_regions).boxes,
                      !.original_line_count = Len(page_data.text_regions)]
SplitPage(page_data) ==
    [page_data EXCEPT !.text_regions = SplitRegions(page_data.text_regions).boxes,
                      !.original_line_count = Len(page_data.text_regions)]

\* apply_word_splitting(results_data) with SPLIT_BY_WORDS on.
apply_word_splitting(pages) ==
    IF \E i \in 1..Len(pages) : SplitRegions(pages[i].text_regions).raised
    THEN [raised |-> TRUE, pages |-> <<>>]
    ELSE [raised |-> FALSE, pages |-> [i \in 1..Len(pages) |-> SplitPage(pages[i])]]

\* save_results(results): the file after a write that succeeded.
Written(file, pages) ==
    [exists |-> TRUE, complete |-> TRUE, pages |-> pages, writes |-> file.writes + 1]

\* The combination loop of _process_hybrid_pdf.
HybridPageOcrFirst(page_data, ocr_results_by_page) ==
    PageEntry(page_data.page_num,
              PageRegions(ocr_results_by_page, page_data.page_num) \o page_data.text_regions,
              page_data.full_text, "hybrid")
HybridPage(page_data, ocr_results_by_page) ==
    PageEntry(page_data.page_num,
              page_data.text_regions \o PageRegions(ocr_results_by_page, page_data.page_num),
              page_data.full_text, "hybrid")

\* Native words wide enough for a page to count as a text page, and a short one.
LongWords ==
    <<NativeWord(R(72), R(100), R(252), R(112), Rep("a", 30)),
      NativeWord(R(260), R(100), R(410), R(112), Rep("b", 25))>>
ShortWords == <<NativeWord(R(72), R(100), R(84), R(112), <<"a", "b">>)>>

\* An image placed on the page over the area of LongWords.
PlacedOverText == <<PlacedRect(R(60), R(90), R(260), R(130))>>

DocPage(words, images, lines, w, h, extract_raises, ocr_raises) ==
    [words |-> words, images |-> images, lines |-> lines, pdf_w |-> w, pdf_h |-> h,
     extract_raises |-> extract_raises, ocr_raises |-> ocr_raises]

PageScanImage == EmbeddedImage(OnePlacement, 4, 2, FALSE, <<LineEq>>)

\* The pages a PDF of the model is made of.
DocPages ==
    { DocPage(LongWords, <<>>, <<>>, 600, 800, FALSE, FALSE),
      DocPage(LongWords, <<EmbeddedImage(PlacedOverText, 4, 2, FALSE, <<LineHi, LineLo, LineEq>>)>>,
              <<>>, 600, 800, FALSE, FALSE),
      DocPage(ShortWords, <<EmbeddedImage(<<>>, 4, 2, FALSE, <<LineHi>>)>>,
              <<LineHi>>, 600, 800, FALSE, FALSE),
      DocPage(<<>>, <<PageScanImage>>, <<LineHi, LineEq, LineLo>>, 600, 800, FALSE, FALSE),
      DocPage(<<>>, <<PageScanImage>>, <<LineMix>>, 1200, 2000, FALSE, FALSE),
      DocPage(<<>>, <<>>, <<>>, 600, 800, FALSE, FALSE),
      DocPage(<<>>, <<PageScanImage>>, <<LineHi>>, 600, 800, FALSE, TRUE),
      DocPage(LongWords, <<>>, <<>>, 600, 800, TRUE, FALSE),
      DocPage(LongWords, <<Unextractable(EmbeddedImage(PlacedOverText, 4, 2, FALSE, <<LineHi>>))>>,
              <<>>, 600, 800, FALSE, FALSE),
      DocPage(LongWords, <<EmbeddedImage(OnePlacement, 4, 2, FALSE, <<LineEmpty>>)>>,
              <<>>, 600, 800, FALSE, FALSE) }

\* The page as the classifier reads it: its text is the words joined by blanks.
ReaderPage(page) ==
    [ws |-> 0,
     core |-> Len(Strip(JoinWords([i \in 1..Len(page.words) |-> page.words[i].text]))),
     images |-> Len(page.images)]
ReaderPages(doc) == [i \in 1..Len(doc) |-> ReaderPage(doc[i])]

\* The results file an earlier run on another document left at JSON_OUTPUT.
StaleFile ==
    [exists |-> TRUE, complete |-> TRUE,
     pages |-> <<PageEntry(1, <<OcrRegion(Rect4(R(1), R(2), R(3), R(4)), <<"b", "a">>,
                                          Rat(9, 10))>>,
                           <<"b", "a">>, "unset")>>,
     writes |-> 0]

PpInit ==
    /\ OCR_ENGINE \in OcrEngines
    /\ em_images = <<>>
    /\ em_i = 1
    /\ em_results = NoPages
    /\ pp_doc \in SeqsUpTo(DocPages, MaxDocPages)
    /\ pp_pc = "detect"
    /\ pdf_type = "none"
    /\ all_results = <<>>
    /\ json_file \in {NoFile, StaleFile}
    /\ ocr_inits = 0
    /\ oc_out = OcrStart
    /\ ClIdle
    /\ SpIdle
    /\ TrIdle
    /\ RdIdle
    /\ mn_pc = "join"
    /\ mn_alive = TRUE
    /\ result_container = NoOutcome
    /\ mn_exit = -1
    /\ AwIdle

\* PASO 1: detect_pdf_type and the empty all_results.
Detect ==
    /\ pp_pc = "detect"
    /\ pdf_type' = detect_pdf_type(ReaderPages(pp_doc), 0).type
    /\ all_results' = <<>>
    /\ pp_pc' = "process"
    /\ UNCHANGED <<pp_doc, json_file, ocr_inits, oc_out, cl_vars, sp_vars, tr_vars, em_vars, rd_vars, mn_vars, aw_vars>>

\* PASO 2 of a text_only document.
ProcessTextOnly ==
    /\ pp_pc = "process"
    /\ pdf_type = "text_only"
    /\ LET native_results == extract_native_text_with_boxes(pp_doc)
       IN  all_results' = [i \in 1..Len(native_results) |->
                              [native_results[i] EXCEPT !.processing_method = "native_text"]]
    /\ pp_pc' = "split"
    /\ UNCHANGED <<pp_doc, pdf_type, json_file, ocr_inits, oc_out,
                   cl_vars, sp_vars, tr_vars, em_vars, rd_vars, mn_vars, aw_vars>>

\* PASO 2 of a text_and_images document: _process_hybrid_pdf.
ProcessHybridAlwaysInits ==
    /\ pp_pc = "process"
    /\ pdf_type = "text_and_images"
    /\ LET native_results == extract_native_text_with_boxes(pp_doc)
           embedded_images == extract_images_from_pdf(pp_doc)
           ocr_results_by_page ==
               IF embedded_images # <<>>
               THEN _process_embedded_images(embedded_images, OCR_ENGINE) ELSE NoPages
       IN  /\ ocr_inits' = ocr_inits + 1
           /\ all_results' = [i \in 1..Len(native_results) |->
                                 HybridPage(native_results[i], ocr_results_by_page)]
    /\ pp_pc' = "split"
    /\ UNCHANGED <<pp_doc, pdf_type, json_file, oc_out, cl_vars, sp_vars, tr_vars, em_vars, rd_vars, mn_vars, aw_vars>>
ProcessHybrid ==
    /\ pp_pc = "process"
    /\ pdf_type = "text_and_images"
    /\ LET native_results == extract_native_text_with_boxes(pp_doc)
           embedded_images == extract_images_from_pdf(pp_doc)
           ocr_results_by_page ==
               IF embedded_images # <<>>
               THEN _process_embedded_images(embedded_images, OCR_ENGINE) ELSE NoPages
       IN  /\ ocr_inits' = IF embedded_images # <<>> THEN ocr_inits + 1 ELSE ocr_inits
           /\ all_results' = [i \in 1..Len(native_results) |->
                                 HybridPage(native_results[i], ocr_results_by_page)]
    /\ pp_pc' = "split"
    /\ UNCHANGED <<pp_doc, pdf_type, json_file, oc_out, cl_vars, sp_vars, tr_vars, em_vars, rd_vars, mn_vars, aw_vars>>

\* PASO 2 of a scanned document: _process_scanned_pdf.  OnnxTR reads the PDF
\* directly; PaddleOCR goes through the page images and run_ocr, which writes
\* the results file itself.  An exception ends the run with exit(1).
ProcessScanned ==
    /\ pp_pc = "process"
    /\ pdf_type = "scanned"
    /\ ocr_inits' = ocr_inits + 1
    /\ IF OCR_ENGINE = "onnxtr"
       THEN LET ocr_results == run_ocr_direct_pdf(pp_doc, RenderScale(pp_doc))
            IN  /\ all_results' = ocr_results.pages
                /\ pp_pc' = IF ocr_results.raised THEN "exit1" ELSE "split"
                /\ json_file' = json_file
       ELSE LET images == pdf_to_scaled_images(pp_doc)
                ocr_results == run_ocr(images, OCR_ENGINE)
            IN  IF images = <<>>
                THEN /\ pp_pc' = "exit1"
                     /\ UNCHANGED <<all_results, json_file>>
                ELSE /\ all_results' = ocr_results.pages
                     /\ json_file' = Written(json_file, ocr_results.pages)
                     /\ pp_pc' = "split"
    /\ UNCHANGED <<pp_doc, pdf_type, oc_out, cl_vars, sp_vars, tr_vars, em_vars, rd_vars, mn_vars, aw_vars>>

\* all_results = apply_word_splitting(all_results)
ApplyWordSplitting ==
    /\ pp_pc = "split"
    /\ LET split == apply_word_splitting(all_results)
       IN  /\ all_results' = IF split.raised THEN all_results ELSE split.pages
           /\ pp_pc' = IF split.raised THEN "exit1" ELSE "save"
    /\ UNCHANGED <<pp_doc, pdf_type, json_file, ocr_inits, oc_out,
                   cl_vars, sp_vars, tr_vars, em_vars, rd_vars, mn_vars, aw_vars>>

\* save_results(all_results): the write succeeds, or it fails inside the try,
\* leaving the file as it was or cut short, and the run goes on.
SaveResults ==
    /\ pp_pc = "save"
    /\ \/ json_file' = Written(json_file, all_results)
       \/ json_file' = json_file
       \/ json_file' = [exists |-> TRUE, complete |-> FALSE, pages |-> <<>>,
                        writes |-> json_file.writes]
    /\ pp_pc' = "saved"
    /\ UNCHANGED <<pp_doc, pdf_type, all_results, ocr_inits, oc_out,
                   cl_vars, sp_vars, tr_vars, em_vars, rd_vars, mn_vars, aw_vars>>

\* run_ocr(pdf_to_scaled_images(PDF_PATH), ocr) called on its own, with either
\* engine; it ends by writing the results file unless it raised.
RunOcr ==
    /\ oc_out.pc = "start"
    /\ pp_doc # <<>>
    /\ LET ocr_results == run_ocr(pdf_to_scaled_images(pp_doc), OCR_ENGINE)
       IN  /\ oc_out' = [pc |-> "done", raised |-> ocr_results.raised,
                         pages |-> ocr_results.pages]
           /\ json_file' = IF ocr_results.raised THEN json_file
                           ELSE Written(json_file, ocr_results.pages)
    /\ UNCHANGED <<pp_doc, pp_pc, pdf_type, all_results, ocr_inits,
                   cl_vars, sp_vars, tr_vars, em_vars, rd_vars, mn_vars, aw_vars>>

\* The three renderers of src/src/pdf/generator.py.
RenderKinds == {"annotated", "searchable", "editable"}

\* _generate_visualizations (which catches its exceptions and changes neither
\* the results nor the results file) and _generate_enhanced_pdfs, up to the
\* json.load of a renderer: each of the three renderers reads JSON_OUTPUT as
\* it is then, and returns False at once when it cannot be parsed.  json.dump
\* followed by json.load gives back the page entries as they were.
GenerateEnhancedPdfs ==
    /\ pp_pc = "saved"
    /\ pp_pc' = "done"
    /\ rd_kind' \in RenderKinds
    /\ IF json_file.exists /\ json_file.complete
       THEN /\ rd_pages' = json_file.pages
            /\ rd_npages' = Len(pp_doc)
            /\ rd_status' = "running"
       ELSE /\ rd_status' = "failed"
            /\ UNCHANGED <<rd_pages, rd_npages>>
    /\ UNCHANGED <<pp_doc, pdf_type, all_results, json_file, ocr_inits, oc_out,
                   rd_p, rd_r, rd_out, rd_file,
                   cl_vars, sp_vars, tr_vars, em_vars, mn_vars, aw_vars>>

PpNext ==
    \/ Detect
    \/ ProcessTextOnly
    \/ ProcessHybrid
    \/ ProcessScanned
    \/ ApplyWordSplitting
    \/ SaveResults
    \/ GenerateEnhancedPdfs

SpecPipe == PpInit /\ [][PpNext]_vars

\* The run together with direct calls of run_ocr.
SpecOcr == PpInit /\ [][PpNext \/ RunOcr]_vars

-----------------------------------------------------------------------------
(* main and its worker thread: src/main_refactored.py, main *)

\* The status `exit(1)` of the timeout branch ends the process with.
TIMEOUT_EXIT == 1

\* A step of _run_main in the worker thread while main waits in thread.join.
RunWorker ==
    /\ mn_pc = "join"
    /\ mn_alive
    /\ PpNext

\* run_with_timeout ends: _run_main returned; or its exit(1) raised SystemExit,
\* which `except Exception` does not catch and which ends the thread silently;
\* or code of _run_main before its try raised an Exception.
WorkerEnds ==
    /\ mn_pc = "join"
    /\ mn_alive
    /\ \/ pp_pc = "done" /\ result_container' = [result_container EXCEPT !.success = TRUE]
       \/ pp_pc = "exit1" /\ result_container' = result_container
       \/ pp_pc = "detect" /\ result_container' = [result_container EXCEPT !.error = TRUE]
    /\ mn_alive' = FALSE
    /\ UNCHANGED <<mn_pc, mn_exit, cl_vars, sp_vars, tr_vars, em_vars, pp_vars, rd_vars, aw_vars>>

\* thread.join(timeout=MAX_PROCESSING_TIME_SEC) returns with the worker still
\* alive: the message is printed and exit(1) ends the process.
JoinTimeout ==
    /\ mn_pc = "join"
    /\ mn_alive
    /\ mn_pc' = "timeout"
    /\ mn_exit' = TIMEOUT_EXIT
    /\ UNCHANGED <<mn_alive, result_container, cl_vars, sp_vars, tr_vars, em_vars,
                   pp_vars, rd_vars, aw_vars>>

\* thread.join returns because the worker ended: main returns (status 0),
\* re-raises the recorded error (uncaught: status 1) or calls exit(1).
JoinReturns ==
    /\ mn_pc = "join"
    /\ ~mn_alive
    /\ IF result_container.success THEN mn_pc' = "ok" /\ mn_exit' = 0
       ELSE IF result_container.error THEN mn_pc' = "raise" /\ mn_exit' = 1
       ELSE mn_pc' = "exit1" /\ mn_exit' = 1
    /\ UNCHANGED <<mn_alive, result_container, cl_vars, sp_vars, tr_vars, em_vars,
                   pp_vars, rd_vars, aw_vars>>

MnNext ==
    \/ RunWorker
    \/ WorkerEnds
    \/ JoinTimeout
    \/ JoinReturns

SpecMain == PpInit /\ [][MnNext]_vars

-----------------------------------------------------------------------------
(* apply_word_splitting as a function of a results document:
   src/src/ocr/word_splitter.py *)

\* Longest region list of a page handed to apply_word_splitting.
MaxLineRegions == 3

LineRegion(bbox, text) == OcrRegion(bbox, text, Rat(9, 10))

\* Regions as the extraction and OCR paths store them: a native word, OCR
\* lines of one, two and three words, a line of blanks, a detection with an
\* empty text, a detection stored with bbox None, and a line of two words on
\* a bbox with a None coordinate.
ResultRegions ==
    { NativeRegion(NativeWord(R(72), R(100), R(84), R(112), <<"a", "b">>)),
      LineRegion(Rect4(R(0), R(0), R(8), R(4)), <<"a">>),
      LineRegion(Rect4(R(0), R(0), R(8), R(4)), <<"a", " ", "b">>),
      LineRegion(Rect4(R(0), R(0), R(24), R(6)), <<"a", "b", " ", "a", " ", " ", "b">>),
      LineRegion(Rect4(R(0), R(0), R(8), R(4)), <<" ">>),
      LineRegion(Rect4(R(0), R(0), R(8), R(4)), <<>>),
      LineRegion(<<>>, <<"a", " ", "b">>),
      LineRegion(<<Pt(R(0), R(0)), Pt(R(8), NoneC), Pt(R(8), R(4)), Pt(R(0), R(4))>>,
                 <<"a", " ", "b">>) }

\* A document of one page, or of a page whose OCR failed followed by a page.
AwInit ==
    /\ \E regions \in SeqsUpTo(ResultRegions, MaxLineRegions) :
          aw_pages \in { <<PageEntry(1, regions, <<>>, "unset")>>,
                         <<ErrorEntry(1), PageEntry(2, regions, <<>>, "unset")>> }
    /\ aw_out = <<>>
    /\ ClIdle
    /\ SpIdle
    /\ TrIdle
    /\ EmIdle
    /\ PpIdle
    /\ RdIdle
    /\ MnIdle

\* results = apply_word_splitting(results), on the document and then once
\* more on what the first call returned.
ApplySplitting ==
    /\ Len(aw_out) < 2
    /\ aw_out # <<>> => ~aw_out[Len(aw_out)].raised
    /\ aw_out' = Append(aw_out,
                        apply_word_splitting(IF aw_out = <<>> THEN aw_pages
                                             ELSE aw_out[Len(aw_out)].pages))
    /\ UNCHANGED <<aw_pages, cl_vars, sp_vars, tr_vars, em_vars, pp_vars, rd_vars, mn_vars>>

SpecApplySplitting == AwInit /\ [][ApplySplitting]_vars

-----------------------------------------------------------------------------
(* PDF renderers: src/src/pdf/generator.py *)

\* `p and len(p) >= 2`: the points of a bbox that have two coordinates.
UsablePoint(p) == Len(p) >= 2
UsablePoints(bbox) == SelectSeq(bbox, UsablePoint)

\* The coordinates left after None and +-inf are dropped.
FiniteCoords(coords) == SelectSeq(coords, IsNum)

NoRect == [ok |-> FALSE, x0 |-> R(0), y0 |-> R(0), x1 |-> R(0), y1 |-> R(0)]

\* The rectangle the three renderers build from a bbox of four entries, or
\* NoRect when one of their `continue` tests applies.
RegionRectUnchecked(bbox) ==
    LET x_coords == FiniteCoords(XCoords(UsablePoints(bbox)))
        y_coords == FiniteCoords(YCoords(UsablePoints(bbox)))
    IN  IF x_coords = <<>> \/ y_coords = <<>> THEN NoRect
        ELSE [ok |-> TRUE, x0 |-> RMinSeq(x_coords), y0 |-> RMinSeq(y_coords),
              x1 |-> RMaxSeq(x_coords), y1 |-> RMaxSeq(y_coords)]
RegionRect(bbox) ==
    LET x_coords == FiniteCoords(XCoords(UsablePoints(bbox)))
        y_coords == FiniteCoords(YCoords(UsablePoints(bbox)))
    IN  IF x_coords = <<>> \/ y_coords = <<>> THEN NoRect
        ELSE LET x0 == RMinSeq(x_coords)
                 y0 == RMinSeq(y_coords)
                 x1 == RMaxSeq(x_coords)
                 y1 == RMaxSeq(y_coords)
             IN  IF RLeq(x1, x0) \/ RLeq(y1, y0) THEN NoRect
                 \* rect.is_empty or rect.is_infinite
                 ELSE IF RLeq(x1, x0) \/ RLeq(y1, y0) THEN NoRect
                 ELSE [ok |-> TRUE, x0 |-> x0, y0 |-> y0, x1 |-> x1, y1 |-> y1]

\* `if not bbox or len(bbox) != 4 [or not text]: continue`
SkipsRegion(kind, region) ==
    \/ region.bbox = <<>>
    \/ Len(region.bbox) # 4
    \/ kind # "annotated" /\ region.text = <<>>

AnnotColor(source) ==
    IF source = "native" THEN "green"
    ELSE IF source = "ocr_from_image" THEN "orange" ELSE "red"

\* fontsize of the searchable and of the editable renderer, and of the
\* editable renderer's second attempt.
SearchableFontsizeNoFloor(rect) == RMul(RSub(rect.y1, rect.y0), Rat(4, 5))
SearchableFontsize(rect) == RMax(R(1), RMul(RSub(rect.y1, rect.y0), Rat(4, 5)))
EditableFontsize(rect) == RMax(R(6), RMul(RSub(rect.y1, rect.y0), Rat(7, 10)))
RetryFontsizeSame(fontsize) == RMax(R(4), fontsize)
RetryFontsize(fontsize) == RMax(R(4), RMul(fontsize, Rat(4, 5)))

\* One call on a page of the document; `at` is the position of the region it
\* was made for, `fits` whether insert_textbox returned rc >= 0.
DrawCall(call, page, rect, text, fontsize, render_mode, color, fits, at) ==
    [call |-> call, page |-> page, rect |-> rect, text |-> text, fontsize |-> fontsize,
     render_mode |-> render_mode, color |-> color, fits |-> fits, at |-> at,
     align |-> IF call = "insert_textbox" THEN "TEXT_ALIGN_LEFT" ELSE "none"]

\* The calls the body of `for region in text_regions` makes for one region.
RegionCalls(kind, region, page, at, fits, fits_retry) ==
    IF SkipsRegion(kind, region) THEN <<>>
    ELSE LET rect == RegionRect(region.bbox) IN
         IF ~rect.ok THEN <<>>
         ELSE IF kind = "annotated"
              THEN <<DrawCall("add_rect_annot", page, rect, region.text, R(0), -1,
                              AnnotColor(region.source), TRUE, at)>>
         ELSE IF kind = "searchable"
              THEN <<DrawCall("insert_textbox", page, rect, region.text,
                              SearchableFontsize(rect), 3, "black", fits, at)>>
         ELSE LET fontsize == EditableFontsize(rect)
                  first == DrawCall("insert_textbox", page, rect, region.text,
                                    fontsize, 0, "black", fits, at)
              IN  IF fits THEN <<first>>
                  ELSE <<first, DrawCall("insert_textbox", page, rect, region.text,
                                         RetryFontsize(fontsize), 0, "black",
                                         fits_retry, at)>>

\* doc[page_num - 1]: the page (1-based) the index selects, 0 for IndexError.
DocPageAt(page_num, npages) ==
    IF page_num - 1 \in 0..(npages - 1) THEN page_num
    ELSE IF page_num - 1 \in (0 - npages)..(0 - 1) THEN npages + page_num
    ELSE 0


RenderRegion(bbox, text, source) ==
    [bbox |-> bbox, text |-> text, confidence |-> Rat(9, 10), source |-> source,
     is_word |-> "true"]

\* Regions as a results file can hold them: rectangles with and without area,
\* bboxes with missing entries, and points with a missing or infinite coordinate.
RenderRegions ==
    { RenderRegion(Rect4(R(10), R(20), R(16), R(24)), <<"a", "b">>, "native"),
      RenderRegion(Rect4(R(10), R(20), R(16), R(40)), <<"a">>, "ocr_from_image"),
      RenderRegion(Rect4(R(10), R(20), R(16), R(21)), <<"b">>, "unknown"),
      RenderRegion(Rect4(R(10), R(20), R(16), R(24)), <<>>, "native"),
      RenderRegion(Rect4(R(10), R(20), R(10), R(24)), <<"a">>, "native"),
      RenderRegion(Rect4(R(10), R(20), R(16), R(20)), <<"a">>, "unknown"),
      RenderRegion(<<>>, <<"a">>, "unknown"),
      RenderRegion(<<Pt(R(10), R(20)), Pt(R(16), R(20)), Pt(R(16), R(24))>>, <<"a">>, "unknown"),
      RenderRegion(<<Pt(R(10), R(20)), <<>>, Pt(R(16), R(24)), Pt(R(10), R(24))>>,
                   <<"a">>, "unknown"),
      RenderRegion(<<Pt(R(10), R(20)), <<R(16)>>, Pt(R(16), R(24)), Pt(R(10), R(24))>>,
                   <<"a">>, "unknown"),
      RenderRegion(<<Pt(R(10), R(20)), Pt(NoneC, R(20)), Pt(R(16), R(24)), Pt(R(10), R(24))>>,
                   <<"a">>, "ocr_from_image"),
      RenderRegion(<<Pt(R(10), R(20)), Pt(R(16), InfC), Pt(R(16), R(24)), Pt(R(10), R(24))>>,
                   <<"a">>, "ocr_from_image"),
      RenderRegion(<<Pt(NoneC, R(20)), Pt(NoneC, R(20)), Pt(NoneC, R(24)), Pt(NoneC, R(24))>>,
                   <<"a">>, "unknown") }

\* Number of pages of the original PDF, and the page numbers an entry can
\* name: the first page, the last page and one past the last.
RenderDocPages == 2
RenderPageNums == {1, RenderDocPages, RenderDocPages + 1}

RenderEntry(page_num, text_regions) == PageEntry(page_num, text_regions, <<>>, "unset")

\* A renderer call on a results file of one or two entries holding at most
\* MaxRegions regions together.
RdInit ==
    /\ rd_kind \in RenderKinds
    /\ rd_npages = RenderDocPages
    /\ \E regions \in SeqsUpTo(RenderRegions, MaxRegions), cut \in 0..MaxRegions,
          n1 \in RenderPageNums, n2 \in RenderPageNums \cup {0} :
          /\ cut <= Len(regions)
          /\ n2 = 0 => cut = Len(regions)
          /\ rd_pages =
               IF n2 = 0 THEN <<RenderEntry(n1, regions)>>
               ELSE <<RenderEntry(n1, SubSeq(regions, 1, cut)),
                      RenderEntry(n2, SubSeq(regions, cut + 1, Len(regions)))>>
    /\ rd_p = 1
    /\ rd_r = 0
    /\ rd_out = <<>>
    /\ rd_status = "start"
    /\ rd_file = FALSE
    /\ ClIdle
    /\ SpIdle
    /\ TrIdle
    /\ EmIdle
    /\ PpIdle
    /\ MnIdle
    /\ AwIdle

\* json.load of the results file and fitz.open of the original PDF: either
\* may raise, and the renderer then returns False.
LoadResults ==
    /\ rd_status = "start"
    /\ rd_status' \in {"running", "failed"}
    /\ UNCHANGED <<rd_kind, rd_pages, rd_npages, rd_p, rd_r, rd_out, rd_file,
                   cl_vars, sp_vars, tr_vars, em_vars, pp_vars, mn_vars, aw_vars>>

\* page = doc[page_num - 1]; an IndexError leaves the loops and the renderer
\* returns False without saving.
OpenPage ==
    /\ rd_status = "running"
    /\ rd_p <= Len(rd_pages)
    /\ rd_r = 0
    /\ IF DocPageAt(rd_pages[rd_p].page_num, rd_npages) = 0
       THEN rd_status' = "failed" /\ rd_r' = rd_r
       ELSE rd_status' = rd_status /\ rd_r' = 1
    /\ UNCHANGED <<rd_kind, rd_pages, rd_npages, rd_p, rd_out, rd_file,
                   cl_vars, sp_vars, tr_vars, em_vars, pp_vars, mn_vars, aw_vars>>

\* One iteration of `for region in text_regions`.
RenderOneRegion ==
    /\ rd_status = "running"
    /\ rd_p <= Len(rd_pages)
    /\ rd_r >= 1
    /\ rd_r <= Len(rd_pages[rd_p].text_regions)
    /\ \E fits \in BOOLEAN, fits_retry \in BOOLEAN :
          rd_out' = rd_out \o RegionCalls(rd_kind, rd_pages[rd_p].text_regions[rd_r],
                                          DocPageAt(rd_pages[rd_p].page_num, rd_npages),
                                          <<rd_p, rd_r>>, fits, fits_retry)
    /\ rd_r' = rd_r + 1
    /\ UNCHANGED <<rd_kind, rd_pages, rd_npages, rd_p, rd_status, rd_file,
                   cl_vars, sp_vars, tr_vars, em_vars, pp_vars, mn_vars, aw_vars>>

\* The end of the body of `for page_data in results.get('pages', [])`.
FinishPage ==
    /\ rd_status = "running"
    /\ rd_p <= Len(rd_pages)
    /\ rd_r > Len(rd_pages[rd_p].text_regions)
    /\ rd_p' = rd_p + 1
    /\ rd_r' = 0
    /\ UNCHANGED <<rd_kind, rd_pages, rd_npages, rd_out, rd_status, rd_file,
                   cl_vars, sp_vars, tr_vars, em_vars, pp_vars, mn_vars, aw_vars>>

\* doc.save(output_pdf_path, ...): the renderer returns True, or False when
\* the save raises.
SavePdfReportsTrue ==
    /\ rd_status = "running"
    /\ rd_p > Len(rd_pages)
    /\ rd_status' = "saved"
    /\ rd_file' \in BOOLEAN
    /\ UNCHANGED <<rd_kind, rd_pages, rd_npages, rd_p, rd_r, rd_out,
                   cl_vars, sp_vars, tr_vars, em_vars, pp_vars, mn_vars, aw_vars>>
SavePdf ==
    /\ rd_status = "running"
    /\ rd_p > Len(rd_pages)
    /\ \/ rd_status' = "saved" /\ rd_file' = TRUE
       \/ rd_status' = "failed" /\ rd_file' = rd_file
    /\ UNCHANGED <<rd_kind, rd_pages, rd_npages, rd_p, rd_r, rd_out,
                   cl_vars, sp_vars, tr_vars, em_vars, pp_vars, mn_vars, aw_vars>>

RdNext ==
    \/ LoadResults
    \/ OpenPage
    \/ RenderOneRegion
    \/ FinishPage
    \/ SavePdf

SpecRender == RdInit /\ [][RdNext]_vars

-----------------------------------------------------------------------------
(* Classifier claims *)

ExtractableText(p) == p.core > TEXT_THRESHOLD
EveryPageHasText(doc) == \A i \in DOMAIN doc : ExtractableText(doc[i])
SomePageHasText(doc) == \E i \in DOMAIN doc : ExtractableText(doc[i])
SomePageHasImage(doc) == \E i \in DOMAIN doc : doc[i].images > 0

ClDone == cl_result.type # "none" /\ ~cl_result.raised

NoTextNoImage(doc) == ~SomePageHasText(doc) /\ ~SomePageHasImage(doc)

\* C2 (as claimed): every document without text and without images, the
\* zero-page document included, is classified scanned.
C2_AllBlankIsScanned ==
    (ClDone /\ NoTextNoImage(cl_doc)) => cl_result.type = "scanned"

-----------------------------------------------------------------------------
(* Word splitter claims *)

BoxX0(b) == b.bbox[1][1]
BoxX1(b) == b.bbox[2][1]

RECURSIVE SumWidths(_)
SumWidths(boxes) ==
    IF boxes = <<>> THEN R(0)
    ELSE RAdd(RSub(BoxX1(boxes[1]), BoxX0(boxes[1])), SumWidths(Tail(boxes)))

SpWords == TextSplit(sp_region.text)
SpLineX0 == RMinSeq(XCoords(sp_region.bbox))
SpLineX1 == RMaxSeq(XCoords(sp_region.bbox))
SpCharWidth == RDiv(RSub(SpLineX1, SpLineX0), R(SumLen(SpWords)))

\* A call that went through the splitting loop: two or more words on a bbox
\* whose coordinates are all numbers.
SpSplitDone ==
    /\ sp_out.pc = "done"
    /\ Len(SpWords) >= 2
    /\ sp_region.bbox # <<>>
    /\ ~GeometryRaises(sp_region.bbox)

\* C4: for a line of n >= 2 words, the widths of the n word regions plus
\* (n-1) gaps of char_width * WORD_SPACING_THRESHOLD sum to the line's width
\* x1 - x0, and the last word region ends exactly at x1.
C4_WidthsAndGapsTile ==
    SpSplitDone =>
        /\ ~sp_out.raised
        /\ Len(sp_out.boxes) = Len(SpWords)
        /\ RAdd(SumWidths(sp_out.boxes),
                RMul(R(Len(SpWords) - 1), RMul(SpCharWidth, WORD_SPACING_THRESHOLD)))
             = RSub(SpLineX1, SpLineX0)
        /\ BoxX1(sp_out.boxes[Len(sp_out.boxes)]) = SpLineX1

\* C4 witness: a split line of three or more words of unequal lengths on a
\* bbox of positive width.
C4_Witness ==
    /\ SpSplitDone
    /\ Len(sp_out.boxes) >= 3
    /\ Len(SpWords[1]) # Len(SpWords[2])
    /\ RLess(SpLineX0, SpLineX1)
    /\ BoxX1(sp_out.boxes[Len(sp_out.boxes)]) = SpLineX1

\* C5 (as claimed): every word region of a split line lies inside the line's
\* horizontal extent, x0 <= left edge <= right edge <= x1.
C5_WordsInsideLine ==
    SpSplitDone =>
        \A i \in 1..Len(sp_out.boxes) :
            /\ RLeq(SpLineX0, BoxX0(sp_out.boxes[i]))
            /\ RLeq(BoxX0(sp_out.boxes[i]), BoxX1(sp_out.boxes[i]))
            /\ RLeq(BoxX1(sp_out.boxes[i]), SpLineX1)

\* C6: a text of a single word on a present bbox gives back exactly one
\* region: the input bbox, text, confidence and source, is_word not set.
C6_SingleWordUnchanged ==
    (sp_out.pc = "done" /\ Len(SpWords) = 1 /\ sp_region.bbox # <<>>) =>
        /\ ~sp_out.raised
        /\ sp_out.boxes = <<[bbox |-> sp_region.bbox, text |-> sp_region.text,
                             confidence |-> sp_region.confidence,
                             source |-> sp_region.source, is_word |-> "unset"]>>

\* C6 witness: a single word with a blank before it, on a bbox that is not
\* an axis-aligned rectangle.
C6_Witness ==
    /\ sp_out.pc = "done"
    /\ sp_region.text = <<" ", "a">>
    /\ Len(sp_region.bbox) = 4
    /\ ~GeometryRaises(sp_region.bbox)
    /\ sp_region.bbox[1][2] # sp_region.bbox[2][2]
    /\ Len(sp_out.boxes) = 1

-----------------------------------------------------------------------------
(* Transform claims *)

TrPlacement == tr_in.rects[1]
PageCorner(k) ==
    CASE k = 1 -> Pt(TrPlacement.x0, TrPlacement.y0)
      [] k = 2 -> Pt(TrPlacement.x1, TrPlacement.y0)
      [] k = 3 -> Pt(TrPlacement.x1, TrPlacement.y1)
      [] OTHER -> Pt(TrPlacement.x0, TrPlacement.y1)

TrWellFormed ==
    /\ tr_out.pc = "done"
    /\ tr_in.img_width > 0
    /\ tr_in.img_height > 0
    /\ \A i \in 1..Len(tr_in.poly) : ~PointRaises(tr_in.poly[i])

-----------------------------------------------------------------------------
(* Embedded-image claims *)

\* An image whose transform to page coordinates is undefined.
Untransformable(img_info) ==
    img_info.bbox = <<>> \/ img_info.img_width = 0 \/ img_info.img_height = 0

\* C8 (as claimed): the loop iteration of an embedded image that has no
\* placement rectangle, or zero width or height, adds no region to any page.
C8_UntransformableAddsNothing ==
    [][(em_i <= Len(em_images) /\ Untransformable(em_images[em_i]))
          => \A p \in DOMAIN em_results' : em_results'[p] = PageRegions(em_results, p)]_vars

-----------------------------------------------------------------------------
(* Confidence filter claims *)

\* confidence >= 0.5, on the numerator and denominator of the value.
AtLeastHalf(c) == c.d > 0 /\ 2 * c.n >= c.d

PagesRegions(pages) ==
    UNION { {pages[i].text_regions[j] : j \in 1..Len(pages[i].text_regions)} :
            i \in 1..Len(pages) }

\* Every region of the results in memory, of the results file and of a
\* direct run_ocr call.
OutputRegions ==
    PagesRegions(all_results) \cup PagesRegions(json_file.pages) \cup PagesRegions(oc_out.pages)

\* The number of detections of a page that reach MIN_CONFIDENCE: OnnxTR words
\* by their own confidence, PaddleOCR lines by their score.
PassingWords(page) ==
    Cardinality({i \in 1..Len(PageWords(page.lines)) :
                    AtLeastHalf(PageWords(page.lines)[i].confidence)})
PassingLines(page) ==
    Cardinality({i \in 1..Len(page.lines) : AtLeastHalf(page.lines[i].score)})
ExpectedFullPage(page, engine) ==
    IF engine = "onnxtr" THEN PassingWords(page)
    ELSE IF page.ocr_raises THEN 0 ELSE PassingLines(page)

\* The lines of an embedded image that reach MIN_CONFIDENCE: the mean of the
\* word confidences with OnnxTR, the line score with PaddleOCR.
PassingImageLines(image, engine) ==
    Cardinality({i \in 1..Len(image.lines) :
        IF engine = "onnxtr"
        THEN /\ image.lines[i].words # <<>>
             /\ AtLeastHalf(RDiv(SumConfidence(image.lines[i].words),
                                 R(Len(image.lines[i].words))))
        ELSE AtLeastHalf(image.lines[i].score)})

RECURSIVE SumPassingImageLines(_, _)
SumPassingImageLines(images, engine) ==
    IF images = <<>> THEN 0
    ELSE PassingImageLines(images[1], engine) + SumPassingImageLines(Tail(images), engine)

ImageRegionCount(page_data) ==
    Cardinality({j \in 1..Len(page_data.text_regions) :
                    page_data.text_regions[j].source = "ocr_from_image"})

ReadableImages(page) ==
    \A k \in 1..Len(page.images) :
        /\ page.images[k].extractable
        /\ ~page.images[k].unreadable
        /\ page.images[k].img_width > 0
        /\ page.images[k].img_height > 0

\* C3: no region of any output has a confidence below MIN_CONFIDENCE, and a
\* detection whose confidence equals MIN_CONFIDENCE is kept: before word
\* splitting, a scanned page has exactly one region per detection that reaches
\* the threshold, a page of a hybrid document has exactly one image region per
\* image line that reaches it, and so does every page of a direct run_ocr call.
C3_ConfidenceFilter ==
    /\ \A region \in OutputRegions : AtLeastHalf(region.confidence)
    /\ (pp_pc = "split" /\ pdf_type = "scanned")
          => \A i \in 1..Len(all_results) :
                Len(all_results[i].text_regions) = ExpectedFullPage(pp_doc[i], OCR_ENGINE)
    /\ (pp_pc = "split" /\ pdf_type = "text_and_images")
          => \A i \in 1..Len(all_results) :
                ReadableImages(pp_doc[i])
                   => ImageRegionCount(all_results[i])
                         = SumPassingImageLines(pp_doc[i].images, OCR_ENGINE)
    /\ (oc_out.pc = "done" /\ ~oc_out.raised)
          => \A i \in 1..Len(oc_out.pages) :
                Len(oc_out.pages[i].text_regions) = ExpectedFullPage(pp_doc[i], OCR_ENGINE)

\* A saved results file that holds a region at exactly MIN_CONFIDENCE, from a
\* document that also had a detection below it.
C3_Witness ==
    /\ pp_pc = "saved"
    /\ json_file.complete
    /\ \E region \in PagesRegions(json_file.pages) : region.confidence = MIN_CONFIDENCE
    /\ \E i \in 1..Len(pp_doc) :
          \/ \E k \in 1..Len(pp_doc[i].lines) : ~AtLeastHalf(pp_doc[i].lines[k].score)
          \/ \E m \in 1..Len(pp_doc[i].images) :
                \E k \in 1..Len(pp_doc[i].images[m].lines) :
                    ~AtLeastHalf(pp_doc[i].images[m].lines[k].score)

-----------------------------------------------------------------------------
(* Renderer claims *)

RdRegion(at) == rd_pages[at[1]].text_regions[at[2]]

RdPositions ==
    {at \in (1..Len(rd_pages)) \X (1..MaxRegions) :
        at[2] <= Len(rd_pages[at[1]].text_regions)}

\* The bbox is four points of two finite coordinates each.
FourFinitePoints(bbox) ==
    /\ Len(bbox) = 4
    /\ \A i \in 1..4 : Len(bbox[i]) = 2 /\ bbox[i][1].d > 0 /\ bbox[i][2].d > 0

\* min x = max x or min y = max y over four finite points.
ZeroArea(bbox) ==
    /\ FourFinitePoints(bbox)
    /\ \/ \A i, j \in 1..4 : bbox[i][1] = bbox[j][1]
       \/ \A i, j \in 1..4 : bbox[i][2] = bbox[j][2]

\* A region every renderer has to draw: four finite points, a rectangle with
\* area and, for the two text renderers, a text.
Drawable(kind, region) ==
    /\ FourFinitePoints(region.bbox)
    /\ ~ZeroArea(region.bbox)
    /\ kind = "annotated" \/ region.text # <<>>

DrawnAt(at) == \E k \in 1..Len(rd_out) : rd_out[k].at = at

\* C9: a region whose bounding rectangle has zero width or zero height gets no
\* annotation and no text insertion from any of the three renderers, and the
\* renderer goes on: once every page entry was walked, each drawable region,
\* those after a zero-area region included, has its call.
C9_ZeroAreaNeverRendered ==
    /\ \A k \in 1..Len(rd_out) : ~ZeroArea(RdRegion(rd_out[k].at).bbox)
    /\ (rd_status \in {"running", "saved"} /\ rd_p > Len(rd_pages))
          => \A at \in RdPositions : Drawable(rd_kind, RdRegion(at)) => DrawnAt(at)

\* A renderer that returned True after a zero-area region was followed on its
\* page by a region that was drawn.
C9_Witness ==
    /\ rd_status = "saved"
    /\ \E at \in RdPositions :
          /\ ZeroArea(RdRegion(at).bbox)
          /\ <<at[1], at[2] + 1>> \in RdPositions
          /\ DrawnAt(<<at[1], at[2] + 1>>)
          /\ ~DrawnAt(at)

\* C10: a region whose bbox has fewer than 4 usable points (a point is missing
\* or has a missing or infinite coordinate) is rejected by each renderer:
\* every call a renderer made is for a bbox of four finite points.
C10_IncompleteBBoxRejected ==
    \A k \in 1..Len(rd_out) : FourFinitePoints(RdRegion(rd_out[k].at).bbox)

\* a <= b on two finite values, by cross-multiplication.
LeqQ(a, b) == a.n * b.d <= b.n * a.d

\* rect is (min x, min y, max x, max y) of the four points of bbox.
IsBounding(rect, bbox) ==
    /\ \E i \in 1..4 : bbox[i][1] = rect.x0
    /\ \E i \in 1..4 : bbox[i][1] = rect.x1
    /\ \E i \in 1..4 : bbox[i][2] = rect.y0
    /\ \E i \in 1..4 : bbox[i][2] = rect.y1
    /\ \A i \in 1..4 : /\ LeqQ(rect.x0, bbox[i][1]) /\ LeqQ(bbox[i][1], rect.x1)
                       /\ LeqQ(rect.y0, bbox[i][2]) /\ LeqQ(bbox[i][2], rect.y1)

\* The calls made for the region at a position, in the order they were made.
CallsAt(at) == SelectSeq(rd_out, LAMBDA c : c.at = at)

\* The positions whose loop iteration is over.
RdProcessed == {at \in RdPositions : at[1] < rd_p \/ (at[1] = rd_p /\ at[2] < rd_r)}

RectHeight(rect) == RSub(rect.y1, rect.y0)

\* fs = max(1, 0.8 * h)
IsSearchableFontsize(fs, h) ==
    IF 4 * h.n >= 5 * h.d THEN 5 * fs.n * h.d = 4 * h.n * fs.d ELSE fs = R(1)

\* C11: for every region with a text and a valid rectangle the searchable
\* renderer makes exactly one insert_textbox call: render mode 3 (invisible),
\* left-aligned, into (min x, min y, max x, max y), at max(1, 0.8 * (y1 - y0)).
C11_SearchableInsertsOnce ==
    rd_kind = "searchable"
       => \A at \in RdProcessed :
             Drawable(rd_kind, RdRegion(at))
                => LET calls == CallsAt(at) IN
                   /\ Len(calls) = 1
                   /\ calls[1].call = "insert_textbox"
                   /\ calls[1].render_mode = 3
                   /\ calls[1].align = "TEXT_ALIGN_LEFT"
                   /\ calls[1].text = RdRegion(at).text
                   /\ IsBounding(calls[1].rect, RdRegion(at).bbox)
                   /\ IsSearchableFontsize(calls[1].fontsize, RectHeight(calls[1].rect))

\* A saved searchable PDF with one insertion at the floor of 1 and another at
\* 0.8 of a taller rectangle.
C11_Witness ==
    /\ rd_kind = "searchable"
    /\ rd_status = "saved"
    /\ \E a, b \in RdProcessed :
          /\ Drawable(rd_kind, RdRegion(a)) /\ Drawable(rd_kind, RdRegion(b))
          /\ Len(CallsAt(a)) = 1 /\ CallsAt(a)[1].fontsize = R(1)
          /\ Len(CallsAt(b)) = 1 /\ CallsAt(b)[1].fontsize = R(16)

\* fs = max(6, 0.7 * h) and fs2 = max(4, 0.8 * fs)
IsEditableFontsize(fs, h) ==
    IF 7 * h.n >= 60 * h.d THEN 10 * fs.n * h.d = 7 * h.n * fs.d ELSE fs = R(6)
IsRetryFontsize(fs2, fs) ==
    IF 4 * fs.n >= 20 * fs.d THEN 5 * fs2.n * fs.d = 4 * fs.n * fs2.d ELSE fs2 = R(4)

\* C12: for each valid region the editable renderer first inserts at
\* max(6, 0.7 * height); it inserts a second time, at max(4, 0.8 * first
\* fontsize), exactly when the first call reported overflow, and never a
\* third time whatever the second call reports.
C12_EditableRetriesOnce ==
    rd_kind = "editable"
       => \A at \in RdProcessed :
             Drawable(rd_kind, RdRegion(at))
                => LET calls == CallsAt(at) IN
                   /\ Len(calls) \in {1, 2}
                   /\ \A k \in 1..Len(calls) :
                         calls[k].call = "insert_textbox" /\ calls[k].render_mode = 0
                   /\ IsEditableFontsize(calls[1].fontsize, RectHeight(calls[1].rect))
                   /\ Len(calls) = 2 <=> ~calls[1].fits
                   /\ Len(calls) = 2 => IsRetryFontsize(calls[2].fontsize, calls[1].fontsize)

\* A saved editable PDF where one region needed the second insertion, which
\* overflowed too, and another region fitted at once.
C12_Witness ==
    /\ rd_kind = "editable"
    /\ rd_status = "saved"
    /\ \E a, b \in RdProcessed :
          /\ Len(CallsAt(a)) = 2 /\ ~CallsAt(a)[2].fits
          /\ Len(CallsAt(b)) = 1 /\ CallsAt(b)[1].fits

\* C13: a failure while one page entry is handled, such as a page_num the
\* source PDF does not have, skips only that entry: the renderer goes on with
\* the next entry and still saves.
C13_PageFailureSkipsPage ==
    [][(/\ rd_status = "running"
        /\ rd_p <= Len(rd_pages)
        /\ rd_r = 0
        /\ DocPageAt(rd_pages[rd_p].page_num, rd_npages) = 0)
          => (rd_status' = "running" /\ rd_p' = rd_p + 1)]_vars

-----------------------------------------------------------------------------
(* main claims *)

\* C15: a run in which the worker was still running at the time limit ends
\* in the timeout branch, and a run that ended because of a processing error
\* inside the worker never gives the caller the exit status of a timeout.
C15_TimeoutDistinct ==
    /\ mn_pc = "timeout" => mn_alive /\ mn_exit = TIMEOUT_EXIT
    /\ (mn_pc = "exit1" /\ pp_pc = "exit1") => mn_exit # TIMEOUT_EXIT

-----------------------------------------------------------------------------
(* Page failure claims *)

\* The page whose processing fails in the run: its OCR when the document is
\* scanned, its native extraction otherwise.
PageFails(page) == IF pdf_type = "scanned" THEN page.ocr_raises ELSE page.extract_raises

\* C16: after extraction or OCR the output holds one entry per page of the
\* document, in page order; the entry of a page whose extraction or OCR
\* failed carries the error marker and the entries of the other pages do not.
\* This holds for the run's native extraction and full-page OCR and for
\* run_ocr called with either engine.
C16_FailedPageIsMarked ==
    /\ pp_pc \in {"split", "exit1"} =>
          /\ Len(all_results) = Len(pp_doc)
          /\ \A i \in 1..Len(pp_doc) :
                /\ all_results[i].page_num = i
                /\ all_results[i].error = PageFails(pp_doc[i])
    /\ oc_out.pc = "done" =>
          /\ ~oc_out.raised
          /\ Len(oc_out.pages) = Len(pp_doc)
          /\ \A i \in 1..Len(pp_doc) :
                /\ oc_out.pages[i].page_num = i
                /\ oc_out.pages[i].error = pp_doc[i].ocr_raises

-----------------------------------------------------------------------------
(* Malformed geometry claims *)

\* C17: split_line_box_into_words does not raise on a bbox with a missing
\* point, a point with fewer than two coordinates or a coordinate that is
\* not a number: it returns nothing or the region unsplit.
C17_SplitterNeverRaises ==
    sp_out.pc = "done" =>
        /\ ~sp_out.raised
        /\ (Len(sp_region.bbox) # 4 \/ GeometryRaises(sp_region.bbox)) =>
              sp_out.boxes \in {<<>>, Unsplit(sp_region.bbox, sp_region.text,
                                              sp_region.confidence, sp_region.source)}

-----------------------------------------------------------------------------
(* Full-page OCR coordinate claims *)

\* The polygons, in pixels of the page image, of the detections of a page
\* that reach MIN_CONFIDENCE: words for OnnxTR, lines for PaddleOCR.
KeptPolys(img, engine) ==
    IF engine = "onnxtr"
    THEN LET words == SelectSeq(PageWords(img.lines), LAMBDA w : AtLeastHalf(w.confidence))
         IN  [j \in 1..Len(words) |-> PixelPoly(words[j].geometry, img.new_w, img.new_h)]
    ELSE LET lines == SelectSeq(img.lines, LAMBDA l : AtLeastHalf(l.score))
         IN  [j \in 1..Len(lines) |-> PixelPoly(lines[j].geometry, img.new_w, img.new_h)]

\* A polygon of the page image brought back to the coordinates of the page.
PageNative(poly, img) == DividePoly(DividePoly(poly, img.upscale_factor), img.scale)

\* C18: every bbox that run_ocr stores for a page, with either engine, is
\* the detected polygon divided by the page's upscale factor and then by
\* the page's render scale.
C18_PageNativeBBox ==
    (oc_out.pc = "done" /\ ~oc_out.raised) =>
        \A i \in 1..Len(oc_out.pages) :
            ~oc_out.pages[i].error =>
                LET img == pdf_to_scaled_images(pp_doc)[i]
                    polys == KeptPolys(img, OCR_ENGINE)
                    text_regions == oc_out.pages[i].text_regions
                IN  /\ Len(text_regions) = Len(polys)
                    /\ \A j \in 1..Len(polys) :
                          text_regions[j].bbox = PageNative(polys[j], img)

-----------------------------------------------------------------------------
(* Hybrid page claims *)

\* Two bboxes whose bounding rectangles share an area.
Overlap(a, b) ==
    /\ RLess(RMinSeq(XCoords(a)), RMaxSeq(XCoords(b)))
    /\ RLess(RMinSeq(XCoords(b)), RMaxSeq(XCoords(a)))
    /\ RLess(RMinSeq(YCoords(a)), RMaxSeq(YCoords(b)))
    /\ RLess(RMinSeq(YCoords(b)), RMaxSeq(YCoords(a)))

\* What extraction and embedded-image OCR give for page i of the document.
NativeRegionsOf(i) == [j \in 1..Len(pp_doc[i].words) |-> NativeRegion(pp_doc[i].words[j])]
ImageRegionsOf(i) ==
    PageRegions(_process_embedded_images(extract_images_from_pdf(pp_doc), OCR_ENGINE), i)

\* C19: before word splitting, the region list of every page of a hybrid
\* document is the page's native regions in extraction order followed by
\* the page's embedded-image OCR regions in detection order; its length is
\* the sum of the two counts.
C19_HybridConcatenation ==
    (pp_pc = "split" /\ pdf_type = "text_and_images") =>
        \A i \in 1..Len(all_results) :
            LET regions == all_results[i].text_regions
                n == Len(NativeRegionsOf(i))
            IN  /\ all_results[i].page_num = i
                /\ Len(regions) = n + Len(ImageRegionsOf(i))
                /\ SubSeq(regions, 1, n) = NativeRegionsOf(i)
                /\ SubSeq(regions, n + 1, Len(regions)) = ImageRegionsOf(i)
                /\ \A j \in 1..Len(regions) :
                      regions[j].source = IF j <= n THEN "native" ELSE "ocr_from_image"

\* A hybrid page that holds a native region and an image region that overlap.
C19_Witness ==
    /\ pp_pc = "split"
    /\ pdf_type = "text_and_images"
    /\ \E i \in 1..Len(all_results) :
          \E j, k \in 1..Len(all_results[i].text_regions) :
             /\ j < k
             /\ all_results[i].text_regions[j].source = "native"
             /\ all_results[i].text_regions[k].source = "ocr_from_image"
             /\ Overlap(all_results[i].text_regions[j].bbox,
                        all_results[i].text_regions[k].bbox)

-----------------------------------------------------------------------------
(* Word region claims *)

NonBlank(c) == c # " "

\* C20: a line of n >= 2 words on a bbox of numeric points gives exactly n
\* regions in word order: region i has the i-th whitespace-separated word as
\* text (no blank in it, and the words together are the line's non-blank
\* characters), the line's min y and max y as vertical extent, the line's
\* confidence and source, and is_word = true.
C20_WordRegions ==
    SpSplitDone =>
        /\ ~sp_out.raised
        /\ Len(sp_out.boxes) = Len(SpWords)
        /\ Flatten([i \in 1..Len(sp_out.boxes) |-> sp_out.boxes[i].text])
              = SelectSeq(sp_region.text, NonBlank)
        /\ \A i \in 1..Len(sp_out.boxes) :
              /\ sp_out.boxes[i].text = SpWords[i]
              /\ sp_out.boxes[i].text # <<>>
              /\ SelectSeq(sp_out.boxes[i].text, NonBlank) = sp_out.boxes[i].text
              /\ RMinSeq(YCoords(sp_out.boxes[i].bbox)) = RMinSeq(YCoords(sp_region.bbox))
              /\ RMaxSeq(YCoords(sp_out.boxes[i].bbox)) = RMaxSeq(YCoords(sp_region.bbox))
              /\ sp_out.boxes[i].confidence = sp_region.confidence
              /\ sp_out.boxes[i].source = sp_region.source
              /\ sp_out.boxes[i].is_word = "true"

\* C20 witness: two distinct words with blanks around them, split on a
\* bbox that is not an axis-aligned rectangle.
C20_Witness ==
    /\ SpSplitDone
    /\ sp_region.text = <<" ", "a", "b", " ", "b", " ">>
    /\ Len(sp_region.bbox) = 4
    /\ sp_region.bbox[1][2] # sp_region.bbox[2][2]
    /\ Len(sp_out.boxes) = 2
    /\ sp_out.boxes[1].text = <<"a", "b">>
    /\ sp_out.boxes[2].text = <<"b">>

-----------------------------------------------------------------------------
(* Word splitting of the results: frame claims *)

IsWordRegion(region) == region.is_word = "true"
IsNativeRegion(region) == region.source = "native"

\* Where the output of region k of a page starts in the page's split list.
SplitOffset(regions, k) == Len(SplitRegions(SubSeq(regions, 1, k - 1)).boxes)

\* C21: the step all_results = apply_word_splitting(all_results) keeps every
\* page, and on every page each region already marked is_word is found
\* unchanged at the place its predecessors' outputs leave for it; the native
\* word regions are the same, in the same order, before and after.
C21_WordRegionsUntouched ==
    [][(pp_pc = "split" /\ pp_pc' = "save") =>
          /\ Len(all_results') = Len(all_results)
          /\ \A i \in 1..Len(all_results) :
                LET before == all_results[i].text_regions
                    after == all_results'[i].text_regions
                IN  /\ \A k \in 1..Len(before) :
                          IsWordRegion(before[k]) =>
                              /\ SplitOffset(before, k) + 1 <= Len(after)
                              /\ after[SplitOffset(before, k) + 1] = before[k]
                    /\ SelectSeq(after, IsNativeRegion) = SelectSeq(before, IsNativeRegion)
                    /\ \A k \in 1..Len(before) :
                          IsNativeRegion(before[k]) =>
                              IsWordRegion(before[k]) /\ before[k].confidence = R(1)]_vars

\* C21 witness: a split page that holds native word regions followed by
\* word regions cut from an image line.
C21_Witness ==
    /\ pp_pc = "save"
    /\ \E i \in 1..Len(all_results) :
          LET regions == all_results[i].text_regions
          IN  /\ all_results[i].original_line_count >= 2
              /\ Len(regions) > all_results[i].original_line_count
              /\ IsNativeRegion(regions[1])
              /\ regions[1] = NativeRegion(pp_doc[i].words[1])
              /\ IsWordRegion(regions[Len(regions)])
              /\ ~IsNativeRegion(regions[Len(regions)])

-----------------------------------------------------------------------------
(* Word splitting of the results: region counts *)

\* C22: a call of apply_word_splitting that returns gives every page a
\* region list at least as long as the one it had, and every region of the
\* input contributes at least one region of the output.
C22_NoRegionLost ==
    (Len(aw_out) >= 1 /\ ~aw_out[1].raised) =>
        /\ Len(aw_out[1].pages) = Len(aw_pages)
        /\ \A i \in 1..Len(aw_pages) :
              /\ Len(aw_out[1].pages[i].text_regions) >= Len(aw_pages[i].text_regions)
              /\ \A k \in 1..Len(aw_pages[i].text_regions) :
                    SplitRegions(<<aw_pages[i].text_regions[k]>>).boxes # <<>>

-----------------------------------------------------------------------------
(* Output document claims *)

\* C23: a run that reaches the save step holds exactly one page entry per
\* page of the PDF, with page_num 1 to N in order, whatever the strategy and
\* also when a page failed.
C23_OneEntryPerPage ==
    pp_pc \in {"save", "saved", "done"} =>
        /\ Len(all_results) = Len(pp_doc)
        /\ \A i \in 1..Len(all_results) : all_results[i].page_num = i

\* The processing_method the strategy of a document type stands for.
MethodOf(type) ==
    IF type = "text_only" THEN "native_text"
    ELSE IF type = "text_and_images" THEN "hybrid" ELSE "scanned"

\* C24: every page entry of the output carries the processing_method of the
\* strategy the classifier selected: native_text, hybrid or scanned.
C24_MethodMatchesStrategy ==
    pp_pc \in {"save", "saved", "done"} =>
        \A i \in 1..Len(all_results) :
            all_results[i].processing_method = MethodOf(pdf_type)

-----------------------------------------------------------------------------
(* Classifier claims: a page whose inspection throws *)

\* C25: detect_pdf_type returns one entry per page; the page whose
\* inspection threw is recorded without text and without images, every other
\* page has its own inspected values, and the type is the one the three-way
\* rule gives for the returned page list.
C25_ThrowingPageIsBlank ==
    cl_result.type # "none" =>
        /\ Len(cl_result.pages) = Len(cl_doc)
        /\ \A i \in 1..Len(cl_doc) :
              IF i = cl_throw
              THEN ~cl_result.pages[i].has_text /\ ~cl_result.pages[i].has_images
              ELSE cl_result.pages[i] = PageInfo(cl_doc[i], i)
        /\ cl_result.type = Classify(cl_result.pages)

-----------------------------------------------------------------------------
(* Results file claims *)

\* C26: during a run the results file is not written before the save step
\* of _run_main, and the run writes it at most once (exactly once when that
\* write succeeds).
C26_WrittenOnce ==
    /\ pp_pc \notin {"saved", "done"} => json_file.writes = 0
    /\ json_file.writes <= 1

-----------------------------------------------------------------------------
(* Renderer input claims *)

\* C27: a renderer that runs inside a run reads a results file that this
\* run wrote, after word splitting, and that holds exactly the run's
\* regions after splitting.
C27_RendersOwnResults ==
    (pp_pc = "done" /\ rd_status = "running") =>
        /\ json_file.writes >= 1
        /\ rd_pages = all_results

-----------------------------------------------------------------------------
(* Word splitting of the results: idempotence *)

\* C28: apply_word_splitting applied to its own output returns, and gives
\* every page the text_regions the first application gave it.
C28_SplittingIdempotent ==
    Len(aw_out) = 2 =>
        /\ ~aw_out[2].raised
        /\ Len(aw_out[2].pages) = Len(aw_out[1].pages)
        /\ \A i \in 1..Len(aw_out[1].pages) :
              aw_out[2].pages[i].text_regions = aw_out[1].pages[i].text_regions

\* C28 witness: a second application on a page that the first application
\* changed: a line of several words was split and a line of one word kept.
C28_Witness ==
    /\ Len(aw_out) = 2
    /\ \E i \in 1..Len(aw_pages) :
          /\ Len(aw_out[1].pages[i].text_regions) > Len(aw_pages[i].text_regions)
          /\ \E k \in 1..Len(aw_out[2].pages[i].text_regions) :
                ~IsWordRegion(aw_out[2].pages[i].text_regions[k])
          /\ \E k \in 1..Len(aw_out[2].pages[i].text_regions) :
                /\ IsWordRegion(aw_out[2].pages[i].text_regions[k])
                /\ ~IsNativeRegion(aw_out[2].pages[i].text_regions[k])

-----------------------------------------------------------------------------
(* The run: when the OCR engine is initialised *)

\* C29: once PASO 2 of a run is over, init_ocr was never called and no
\* region comes from OCR if the document is text_only, it was called only if
\* extract_images_from_pdf returned an image if the document is
\* text_and_images, and it was called if the document is scanned; before
\* PASO 2 it was not called at all.
C29_OcrInitByType ==
    /\ pp_pc \in {"detect", "process"} => ocr_inits = 0
    /\ pp_pc \notin {"detect", "process"} =>
          /\ pdf_type = "text_only" =>
                /\ ocr_inits = 0
                /\ \A i \in 1..Len(all_results) :
                      \A k \in 1..Len(all_results[i].text_regions) :
                         IsNativeRegion(all_results[i].text_regions[k])
          /\ pdf_type = "text_and_images" =>
                /\ ocr_inits <= 1
                /\ ocr_inits = 1 => extract_images_from_pdf(pp_doc) # <<>>
          /\ pdf_type = "scanned" => ocr_inits = 1

\* C29 witness: a finished run on a text_and_images document none of whose
\* images was extracted, so that the engine was never initialised.
C29_Witness ==
    /\ pp_pc = "done"
    /\ pdf_type = "text_and_images"
    /\ extract_images_from_pdf(pp_doc) = <<>>
    /\ ocr_inits = 0

-----------------------------------------------------------------------------
(* Hybrid page claims: full_text *)

\* The texts of a region list put together the way the extraction builds
\* full_text: every text followed by a blank, the whole stripped.
RegionsText(regions) == Strip(ConcatWith(RegionTexts(regions), " "))

\* C30: before word splitting, full_text of every page of a hybrid document
\* is the text of the page's native extraction only, and it differs from the
\* concatenated texts of the page's regions whenever the page has at least
\* one embedded-image OCR region.
C30_FullTextIsNativeOnly ==
    (pp_pc = "split" /\ pdf_type = "text_and_images") =>
        \A i \in 1..Len(all_results) :
            /\ all_results[i].full_text = NativePage(pp_doc[i], i).full_text
            /\ all_results[i].full_text = RegionsText(NativeRegionsOf(i))
            /\ ImageRegionCount(all_results[i]) >= 1
                  => all_results[i].full_text # RegionsText(all_results[i].text_regions)

=============================================================================
